---- MODULE Spec2Model ----
(***************************************************************************)
(* GLSLT template instantiation: the template registry (GlobalScope), the  *)
(* local scopes, the instantiator and the output unit, as a state machine  *)
(* whose actions ingest one top-level declaration each.  The rewriting of  *)
(* a function body is a recursive pure computation inside the action.      *)
(***************************************************************************)
EXTENDS Naturals, Integers, Sequences, FiniteSets, TLC

(***************************************************************************)
(* Bounds of the model.                                                    *)
(***************************************************************************)
\* declarations one unit ingests
MaxDecls == 5
\* nesting of local scopes before an instantiation is given up as divergent
MaxDepth == 3
\* parameters of a function definition drawn for parse_definition_as_template
MaxParams == 3
\* arguments of a call drawn for extract_template_parameters / lambda_instantiate
MaxArgs == 3

(***************************************************************************)
(* Syntax trees.  An expression is [k, id, args]: a variable, a literal    *)
(* (id is its text), a binary operation (id is the operator) or a call     *)
(* (id is the callee identifier).                                          *)
(***************************************************************************)
Var(id) == [k |-> "var", id |-> id, args |-> << >>]
Lit(v) == [k |-> "lit", id |-> v, args |-> << >>]
Bin(op, l, r) == [k |-> "bin", id |-> op, args |-> <<l, r>>]
Call(f, as) == [k |-> "call", id |-> f, args |-> as]

\* a parameter declaration: type specifier (with its own array specifier),
\* identifier ("" when unnamed) and the identifier's array specifier
Param(ty, name) == [ty |-> ty, tyarr |-> FALSE, name |-> name, idarr |-> FALSE]
ParamArr(ty, name, tyarr, idarr) == [ty |-> ty, tyarr |-> tyarr, name |-> name, idarr |-> idarr]

\* statements of a function body: a local declaration (init declarator
\* list: head and tail names share the head's type) or an expression
Decl(ty, names) == [k |-> "decl", ty |-> ty, arr |-> FALSE, names |-> names, e |-> Lit("")]
Stmt(e) == [k |-> "expr", ty |-> "", arr |-> FALSE, names |-> << >>, e |-> e]

\* external declarations
Proto(name, params) == [k |-> "proto", name |-> name, params |-> params, body |-> << >>]
Fn(name, params, body) == [k |-> "fn", name |-> name, params |-> params, body |-> body]
Other(name) == [k |-> "other", name |-> name, params |-> << >>, body |-> << >>]

Range(s) == {s[i] : i \in 1..Len(s)}

RECURSIVE SortedSeq(_)
SortedSeq(S) ==
    IF S = {} THEN << >>
    ELSE LET m == CHOOSE x \in S : \A y \in S : x <= y
         IN <<m>> \o SortedSeq(S \ {m})

\* the subsequence of s at the (1-based) positions in S
RECURSIVE AtPositions(_, _, _)
AtPositions(s, S, i) ==
    IF i > Len(s) THEN << >>
    ELSE (IF i \in S THEN <<s[i]>> ELSE << >>) \o AtPositions(s, S, i + 1)

\* F applied to the value of v, which is computed once
With(v, F(_)) == CHOOSE y \in {F(x) : x \in {v}} : TRUE

\* f with key n bound to v (IndexMap::insert on a map kept as a function)
MapInsert(f, n, v) ==
    With(f, LAMBDA g : [x \in DOMAIN g \cup {n} |-> IF x = n THEN v ELSE g[x]])

EmptyMap == [x \in {} |-> {}]

(***************************************************************************)
(* The pretty-printer used for mangling.                                   *)
(***************************************************************************)
RECURSIVE show_expr(_)
RECURSIVE show_args(_, _)
show_args(as, i) ==
    IF i > Len(as) THEN ""
    ELSE (IF i > 1 THEN ", " ELSE "") \o show_expr(as[i]) \o show_args(as, i + 1)

show_expr(e) ==
    CASE e.k = "var" -> e.id
      [] e.k = "lit" -> e.id
      [] e.k = "bin" ->
            show_expr(e.args[1]) \o " " \o e.id \o " " \o
            (IF e.args[2].k = "bin"
                THEN "(" \o show_expr(e.args[2]) \o ")"
                ELSE show_expr(e.args[2]))
      [] e.k = "call" -> e.id \o "(" \o show_args(e.args, 1) \o ")"

(***************************************************************************)
(* Template definitions (transform/template.rs).                           *)
(***************************************************************************)
\* a template parameter numbered among the template parameters only
TemplateParameterRenumbered(typename, symbol, index) ==
    [typename |-> typename, symbol |-> symbol, index |-> IF index > 0 THEN index - 1 ELSE 0]

TemplateParameter(typename, symbol, index) ==
    [typename |-> typename, symbol |-> symbol, index |-> index]

\* the partition of a call's arguments: cur is the cursor over the template
\* parameters, idx the (0-based) position of the argument looked at
RECURSIVE extract_partition(_, _, _, _, _, _)
extract_partition(parameters, args, i, cur, res, other) ==
    IF i > Len(args) THEN [res |-> res, args |-> other]
    ELSE IF cur <= Len(parameters) /\ parameters[cur].index <= i - 1
         THEN extract_partition(parameters, args, i + 1, cur + 1, Append(res, args[i]), other)
         ELSE extract_partition(parameters, args, i + 1, cur, res, Append(other, args[i]))

extract_template_parameters(parameters, args) ==
    extract_partition(parameters, args, 1, 1, << >>, << >>)

\* the same operation as the crate root defines it: the cursor advances only
\* on an argument after the one it matched, and that argument is never kept
RECURSIVE lib_extract_partition(_, _, _, _, _, _)
lib_extract_partition(parameters, args, i, cur, res, other) ==
    IF i > Len(args) THEN [res |-> res, args |-> other]
    ELSE IF cur <= Len(parameters) /\ parameters[cur].index = i - 1
         THEN lib_extract_partition(parameters, args, i + 1, cur, Append(res, args[i]), other)
    ELSE IF cur <= Len(parameters) /\ parameters[cur].index < i - 1
         THEN lib_extract_partition(parameters, args, i + 1, cur + 1, res, Append(other, args[i]))
         ELSE lib_extract_partition(parameters, args, i + 1, cur, res, Append(other, args[i]))

lib_extract_template_parameters(parameters, args) ==
    lib_extract_partition(parameters, args, 1, 1, << >>, << >>)

NoError == [kind |-> "None"]
ArrayedTemplateParameter(name, index) ==
    [kind |-> "ArrayedTemplateParameter", name |-> name, index |-> index]

\* the loop of parse_definition_as_template over the drained parameters
RECURSIVE parse_parameters(_, _, _, _, _)
parse_parameters(def, dpt, i, parameters, non_template_parameters) ==
    IF i > Len(def.params)
    THEN [err |-> NoError,
          kind |-> IF parameters = << >> THEN "Function" ELSE "Template",
          ast |-> [def EXCEPT !.params = non_template_parameters],
          parameters |-> parameters]
    ELSE LET p == def.params[i] IN
         IF p.ty \in DOMAIN dpt
         THEN IF p.tyarr
              THEN [err |-> ArrayedTemplateParameter(def.name, i - 1),
                    kind |-> "Error", ast |-> def, parameters |-> << >>]
              ELSE parse_parameters(def, dpt, i + 1,
                       Append(parameters, TemplateParameter(p.ty, p.name, i - 1)),
                       non_template_parameters)
         ELSE parse_parameters(def, dpt, i + 1, parameters,
                       Append(non_template_parameters, p))

\* no parameter is taken for a template parameter
parse_definition_never_template(def, declared_pointer_types_) ==
    [err |-> NoError, kind |-> "Function", ast |-> def, parameters |-> << >>]

parse_definition_as_template(def, declared_pointer_types_) ==
    parse_parameters(def, declared_pointer_types_, 1, << >>, << >>)

\* the first six hexadecimal digits of the SHA-1 of buf, for every buffer the
\* sources of this model print
Sha1Hex6(buf) ==
    CASE buf = "1" -> "356a19"
      [] buf = "11" -> "17ba07"
      [] buf = "112" -> "601ca9"
      [] buf = "12" -> "7b5200"
      [] buf = "121" -> "8bd795"
      [] buf = "1212" -> "618dcd"
      [] buf = "1223" -> "297beb"
      [] buf = "123" -> "40bd00"
      [] buf = "12fnReturnsOne" -> "d77501"
      [] buf = "13" -> "bd307a"
      [] buf = "1fnReturnsOne" -> "23c6aa"
      [] buf = "23" -> "d435a6"
      [] buf = "231" -> "eadc1d"
      [] buf = "2312" -> "dca684"
      [] buf = "2323" -> "f37be9"
      [] buf = "233" -> "52fdb9"
      [] buf = "23fnReturnsOne" -> "909877"
      [] buf = "3" -> "77de68"
      [] buf = "31" -> "632667"
      [] buf = "312" -> "a93c16"
      [] buf = "323" -> "cb4dd5"
      [] buf = "33" -> "b6692e"
      [] buf = "3fnReturnsOne" -> "044210"
      [] buf = "_1" -> "1dd76b"
      [] buf = "_1 * (e * d)_x + c" -> "7d1247"
      [] buf = "_1 * 2" -> "4aafcc"
      [] buf = "_1 * c" -> "135072"
      [] buf = "_1 + 1" -> "29345f"
      [] buf = "cb" -> "85d56c"
      [] buf = "cbo" -> "d4e61e"
      [] buf = "cbo_1 + c" -> "863c24"
      [] buf = "f" -> "4a0a19"
      [] buf = "f_1" -> "0b35cc"
      [] buf = "fg" -> "72f77e"
      [] buf = "fnReturnsOne" -> "dd5173"
      [] buf = "fnReturnsOne1" -> "c8b615"
      [] buf = "fnReturnsOne12" -> "d60e02"
      [] buf = "fnReturnsOne23" -> "fbbb5f"
      [] buf = "fnReturnsOne3" -> "8b647f"
      [] buf = "fnReturnsOnefnReturnsOne" -> "a31713"
      [] buf = "g" -> "54fd17"

RECURSIVE show_concat(_, _)
show_concat(exprs, i) ==
    IF i > Len(exprs) THEN "" ELSE show_expr(exprs[i]) \o show_concat(exprs, i + 1)

\* every expression is printed into one buffer, one after the other
expr_vec_to_id(exprs) == Sha1Hex6(show_concat(exprs, 1))

generate_id(template, args) ==
    "_glslt" \o "_" \o template.ast.name \o "_" \o expr_vec_to_id(args)

(***************************************************************************)
(* Lambda substitution (transform/local_scope.rs).                         *)
(***************************************************************************)
Placeholder(s) == "_" \o s

\* the substitution table, filled argument by argument; a later insertion of
\* the same placeholder replaces the earlier one
RECURSIVE lambda_subs(_, _, _, _)
lambda_subs(source_parameters, prototype, i, subs) ==
    IF i > Len(source_parameters) THEN subs
    ELSE LET s1 == MapInsert(subs, Placeholder(ToString(i)), source_parameters[i])
             s2 == IF prototype.params[i].name # ""
                   THEN MapInsert(s1, Placeholder(prototype.params[i].name), source_parameters[i])
                   ELSE s1
         IN lambda_subs(source_parameters, prototype, i + 1, s2)

\* the visitor: a replaced variable is not visited again
RECURSIVE lambda_visit(_, _)
lambda_visit(e, subs) ==
    IF e.k = "var" /\ e.id \in DOMAIN subs
    THEN subs[e.id]
    ELSE [e EXCEPT !.args = [i \in DOMAIN e.args |-> lambda_visit(e.args[i], subs)]]

\* prototype.parameters[id] is indexed for every source argument: a call with
\* more arguments than the pointer type declares panics
lambda_instantiate(tgt, source_parameters, prototype) ==
    IF Len(source_parameters) > Len(prototype.params)
    THEN [panic |-> TRUE, e |-> tgt]
    ELSE [panic |-> FALSE,
          e |-> lambda_visit(tgt, lambda_subs(source_parameters, prototype, 1, EmptyMap))]

(***************************************************************************)
(* State.  The registry (GlobalScope), the output unit, the declarations   *)
(* of the source still to ingest, and the record of the last ingest.       *)
(* probe holds the input and the result of one pure operation in the       *)
(* specifications that exercise a single function.                         *)
(***************************************************************************)
VARIABLES
    declared_pointer_types,
    declared_templates,
    known_functions,
    instantiated_templates,
    instanced_templates,
    external_declarations,
    source,
    ingested,
    consumed,
    last,
    failed,
    probe,
    dag,
    static_declarations,
    translation_unit,
    queue,
    first_output

vars == <<declared_pointer_types, declared_templates, known_functions,
          instantiated_templates, instanced_templates, external_declarations,
          source, ingested, consumed, last, failed, probe,
          dag, static_declarations, translation_unit, queue, first_output>>

unit_vars == <<declared_pointer_types, declared_templates, known_functions,
               instantiated_templates, instanced_templates, external_declarations,
               source, ingested, consumed, last, failed,
               dag, static_declarations, translation_unit, queue, first_output>>

\* DependencyDag::default: no symbol, no edge.  symbol_map[i] is the symbol
\* of node i; an edge is <<scope, dependency>>, in the order of insertion
EmptyDag == [symbol_map |-> << >>, edges |-> << >>]

\* no translation unit has been produced yet
NoTranslationUnit == [kind |-> "None", declarations |-> << >>, wanted |-> << >>]

\* Ok(None): no function handle is returned
NoHandle == [k |-> "none"]

NoIngest == [decl |-> Other(""), class |-> "None", emitted |-> << >>,
             calls |-> << >>, rewrites |-> << >>, known |-> {}, cycle |-> FALSE,
             handle |-> NoHandle, instantiators |-> << >>]

\* GlobalScope::new and an empty unit, over the declarations src
UnitInit(src) ==
    /\ declared_pointer_types = EmptyMap
    /\ declared_templates = EmptyMap
    /\ known_functions = EmptyMap
    /\ instantiated_templates = {}
    /\ instanced_templates = << >>
    /\ external_declarations = << >>
    /\ source = src
    /\ ingested = 0
    /\ consumed = {}
    /\ last = NoIngest
    /\ failed = NoError
    /\ dag = EmptyDag
    /\ static_declarations = << >>
    /\ translation_unit = NoTranslationUnit
    /\ queue = << >>
    /\ first_output = NoTranslationUnit

(***************************************************************************)
(* Insertion-ordered maps (IndexMap): sequences of [key, val]; inserting   *)
(* an existing key replaces its value in place.                            *)
(***************************************************************************)
IndexOfKey(m, key) ==
    IF \E i \in 1..Len(m) : m[i].key = key
    THEN CHOOSE i \in 1..Len(m) : m[i].key = key
    ELSE 0

IndexMapHas(m, key) == IndexOfKey(m, key) # 0

IndexMapGet(m, key) == m[IndexOfKey(m, key)].val

IndexMapInsert(m, key, val) ==
    With(m, LAMBDA mv :
        IF IndexMapHas(mv, key)
        THEN [mv EXCEPT ![IndexOfKey(mv, key)] = [key |-> key, val |-> val]]
        ELSE Append(mv, [key |-> key, val |-> val]))

(***************************************************************************)
(* The instantiator (transform/instantiate.rs).                            *)
(***************************************************************************)
PREFIX == "_glslt"

\* the names of BUILTIN_FUNCTION_NAMES the sources of the model call
BUILTIN_FUNCTION_NAMES == {"abs", "max", "min", "mix", "texture"}

UndeclaredPointerType(name) == [kind |-> "UndeclaredPointerType", name |-> name]

\* InstantiateTemplate::new: the counter starts at the outer instantiator's
InstantiateTemplateNew(outer_current_id) ==
    [error |-> NoError, symbol_table |-> << >>, current_id |-> outer_current_id]

new_gen_id(current_id) == PREFIX \o "_lp" \o ToString(current_id)

DeclaredSymbol(symbol_id, gen_id, ty, tyarr, array) ==
    [symbol_id |-> symbol_id, gen_id |-> gen_id, ty |-> ty, tyarr |-> tyarr, array |-> array]

CapturedParameter(ident, sb) ==
    [ident |-> ident, symbol_id |-> sb.symbol_id, gen_id |-> sb.gen_id,
     ty |-> sb.ty, tyarr |-> sb.tyarr, array |-> sb.array]

\* a symbol whose type is a pointer type is a template argument: not declared
add_declared_symbol(I, name, ty, tyarr, array) ==
    IF ty \in DOMAIN declared_pointer_types THEN I
    ELSE With(I, LAMBDA Iv :
            [Iv EXCEPT
               !.symbol_table = IndexMapInsert(@, name,
                   DeclaredSymbol(Len(Iv.symbol_table), new_gen_id(Iv.current_id),
                                  ty, tyarr, array)),
               !.current_id = @ + 1])

(***************************************************************************)
(* Local scopes (transform/local_scope.rs).                                *)
(***************************************************************************)
\* the Capturer: a variable found in the symbol table is recorded under its
\* name and renamed to the symbol's gen_id
RECURSIVE capture_visit(_, _, _)
RECURSIVE capture_all(_, _, _, _)
capture_all(es, i, st, captured) ==
    IF i > Len(es) THEN [es |-> es, captured |-> captured]
    ELSE With(capture_visit(es[i], st, captured), LAMBDA r :
            capture_all([es EXCEPT ![i] = r.e], i + 1, st, r.captured))

capture_visit(e, st, captured) ==
    IF e.k = "var"
    THEN IF IndexMapHas(st, e.id)
         THEN [e |-> Var(IndexMapGet(st, e.id).gen_id),
               captured |-> IndexMapInsert(captured, e.id, IndexMapGet(st, e.id))]
         ELSE [e |-> e, captured |-> captured]
    ELSE With(capture_all(e.args, 1, st, captured), LAMBDA r :
            [e |-> [e EXCEPT !.args = r.es], captured |-> r.captured])

\* the caller's symbol table plus the parent's captured parameters, each
\* under its gen_id
RECURSIVE merge_outer_symbols(_, _, _)
merge_outer_symbols(st, outer, i) ==
    IF i > Len(outer) THEN st
    ELSE With(IndexMapInsert(st, outer[i].gen_id,
                  DeclaredSymbol(outer[i].symbol_id, outer[i].gen_id, outer[i].ty,
                                 outer[i].tyarr, outer[i].array)),
              LAMBDA merged : merge_outer_symbols(merged, outer, i + 1))

\* "Insert outer captured parameters": those whose ident is not a key yet
RECURSIVE insert_outer_captured(_, _, _)
insert_outer_captured(captured, outer, i) ==
    IF i > Len(outer) THEN captured
    ELSE With(IF IndexMapHas(captured, outer[i].ident) THEN captured
              ELSE IndexMapInsert(captured, outer[i].gen_id,
                                  [outer[i] EXCEPT !.ident = outer[i].gen_id]),
              LAMBDA inserted : insert_outer_captured(inserted, outer, i + 1))

\* the captured parameters in the order in which they were captured
unsorted_by_key(s) == s

\* sort_by_key(symbol_id): stable
RECURSIVE sort_by_key(_)
sort_by_key(s) ==
    IF s = << >> THEN << >>
    ELSE With(sort_by_key(SubSeq(s, 1, Len(s) - 1)), LAMBDA sorted :
            LET n == Len(s)
                k == Cardinality({i \in 1..(n - 1) : sorted[i].symbol_id <= s[n].symbol_id})
            IN SubSeq(sorted, 1, k) \o <<s[n]>> \o SubSeq(sorted, k + 1, n - 1))

\* the lookup table of the template's parameter names: a later parameter of
\* the same name replaces the earlier one
template_parameters_by_name(parameters) ==
    [name \in {parameters[j].symbol : j \in 1..Len(parameters)} \ {""} |->
        CHOOSE j \in 1..Len(parameters) :
            /\ parameters[j].symbol = name
            /\ \A j2 \in 1..Len(parameters) : parameters[j2].symbol = name => j2 <= j]

\* the captured parameters of the scope a call is made from (none at the
\* global scope)
captured_parameters(sc) ==
    IF sc = << >> THEN << >> ELSE sc[Len(sc)].captured_parameters

\* LocalScope::new
LocalScopeNew(template, args, symbol_table, sc) ==
    With(extract_template_parameters(template.parameters, args), LAMBDA ex :
    With(merge_outer_symbols(symbol_table, captured_parameters(sc), 1), LAMBDA st :
    With(capture_all(ex.res, 1, st, << >>), LAMBDA cap :
    LET name == generate_id(template, ex.res)
        own == [i \in 1..Len(cap.captured) |->
                   [key |-> cap.captured[i].key,
                    val |-> CapturedParameter(cap.captured[i].key,
                                              IndexMapGet(st, cap.captured[i].key))]]
        all == insert_outer_captured(own, captured_parameters(sc), 1)
    IN [scope |->
           [name |-> name,
            template |-> template.ast.name,
            template_parameters |->
                [i \in 1..Len(ex.res) |->
                    [e |-> cap.es[i], tn |-> template.parameters[i].typename]],
            template_parameters_by_name |-> template_parameters_by_name(template.parameters),
            captured_parameters |-> sort_by_key([i \in 1..Len(all) |-> all[i].val])],
        args |-> ex.args])))

\* the template argument the scope binds to a name, if it binds one
BindsParameter(s, name) ==
    /\ name \in DOMAIN s.template_parameters_by_name
    /\ s.template_parameters_by_name[name] <= Len(s.template_parameters)

BoundArgument(s, name) == s.template_parameters[s.template_parameters_by_name[name]]

Unresolved == [kind |-> "None"]
FunctionName(name) == [kind |-> "FunctionName", name |-> name]
Lambda(expr) == [kind |-> "Lambda", expr |-> expr]

LambdaOfType(arg) ==
    IF arg.tn \in DOMAIN declared_pointer_types THEN Lambda(arg.e) ELSE Unresolved

\* Scope::resolve_function_name of the scope at depth d of the chain sc
\* (depth 0 is the global scope)
RECURSIVE resolve_function_name(_, _, _)
resolve_function_name(sc, d, name) ==
    IF d = 0
    THEN IF name \in DOMAIN known_functions
         THEN FunctionName(known_functions[name].name)
         ELSE Unresolved
    ELSE IF BindsParameter(sc[d], name)
    THEN LET arg == BoundArgument(sc[d], name) IN
         IF arg.e.k = "var"
         THEN IF arg.e.id \in DOMAIN sc[d].template_parameters_by_name
              THEN resolve_function_name(sc, d - 1, arg.e.id)
              ELSE With(resolve_function_name(sc, d - 1, arg.e.id), LAMBDA r :
                      IF r # Unresolved THEN r ELSE LambdaOfType(arg))
         ELSE LambdaOfType(arg)
    ELSE resolve_function_name(sc, d - 1, name)

\* LocalScope::transform_arg_call_typed on a call of a template parameter
transform_arg_call_typed(e, prototype, sc) ==
    LET arg == BoundArgument(sc[Len(sc)], e.id) IN
    With(IF arg.e.k = "var" THEN resolve_function_name(sc, Len(sc), arg.e.id) ELSE Unresolved,
         LAMBDA target :
            IF target.kind = "FunctionName"
            THEN [panic |-> FALSE, e |-> [e EXCEPT !.id = target.name]]
            ELSE lambda_instantiate(IF target.kind = "Lambda" THEN target.expr ELSE arg.e,
                                    e.args, prototype))

(***************************************************************************)
(* The walk of the instantiator over a function definition.  G is the part *)
(* of the global scope the walk changes (instantiated_templates and the    *)
(* pending instanced_templates) with the record of the walk: the template  *)
(* calls it transformed, the template-parameter calls it rewrote, whether  *)
(* it panicked, and whether it was cut at MaxDepth.  sc is the chain of    *)
(* local scopes, innermost last; the global scope is below sc[1].          *)
(***************************************************************************)
NoDefinition == Fn("", << >>, << >>)

\* GlobalScope::register_template_instance
RECURSIVE register_template_instance(_, _, _)
register_template_instance(G, definitions, i) ==
    IF i > Len(definitions) THEN G
    ELSE With([G EXCEPT !.instantiated_templates = @ \cup {definitions[i].name},
                        !.instanced_templates = Append(@, definitions[i])],
              LAMBDA registered : register_template_instance(registered, definitions, i + 1))

\* the template instance is never found declared
template_instance_undeclared(G, name) == FALSE

\* Scope::template_instance_declared
template_instance_declared(G, name) == name \in G.instantiated_templates

\* the call passes the generated names of the captured parameters
captured_arguments_by_gen_id(captured) ==
    [i \in 1..Len(captured) |-> Var(captured[i].gen_id)]

\* "Add the captured parameters to the end of the call"
captured_arguments(captured) ==
    [i \in 1..Len(captured) |-> Var(captured[i].ident)]

\* "Add the extra parameters": one formal per captured parameter
captured_formals(captured) ==
    [i \in 1..Len(captured) |->
        ParamArr(captured[i].ty, captured[i].gen_id, captured[i].tyarr, captured[i].array)]

RECURSIVE add_declared_parameters(_, _, _)
add_declared_parameters(I, params, i) ==
    IF i > Len(params) THEN I
    ELSE With(IF params[i].name = "" THEN I
              ELSE add_declared_symbol(I, params[i].name, params[i].ty,
                                       params[i].tyarr, params[i].idarr),
              LAMBDA declared : add_declared_parameters(declared, params, i + 1))

RECURSIVE add_declared_locals(_, _, _)
add_declared_locals(I, decl, i) ==
    IF i > Len(decl.names) THEN I
    ELSE With(add_declared_symbol(I, decl.names[i], decl.ty, FALSE, decl.arr),
              LAMBDA declared : add_declared_locals(declared, decl, i + 1))

RECURSIVE visit_expr(_, _, _, _)
RECURSIVE visit_exprs(_, _, _, _, _)
RECURSIVE visit_fun_call(_, _, _, _)
RECURSIVE transform_call(_, _, _, _, _)
RECURSIVE template_instantiate(_, _, _, _)
RECURSIVE instantiate(_, _, _, _)
RECURSIVE visit_statements(_, _, _, _, _)

visit_exprs(es, i, I, sc, G) ==
    IF i > Len(es) THEN [es |-> es, I |-> I, G |-> G]
    ELSE With(visit_expr(es[i], I, sc, G), LAMBDA r :
            visit_exprs([es EXCEPT ![i] = r.e], i + 1, r.I, sc, r.G))

\* InstantiateTemplateUnit::visit_expr
visit_expr(e, I, sc, G) ==
    IF G.panic \/ G.diverged THEN [e |-> e, I |-> I, G |-> G]
    ELSE IF e.k = "call" THEN visit_fun_call(e, I, sc, G)
    ELSE With(visit_exprs(e.args, 1, I, sc, G), LAMBDA r :
            [e |-> [e EXCEPT !.args = r.es], I |-> r.I, G |-> r.G])

\* InstantiateTemplate::visit_fun_call, with Scope::transform_arg_call of the
\* innermost scope
visit_fun_call(e, I, sc, G) ==
    With(visit_exprs(e.args, 1, I, sc, G), LAMBDA r :
    LET e1 == [e EXCEPT !.args = r.es]
        unchanged == [e |-> e1, I |-> r.I, G |-> r.G]
    IN IF r.G.panic \/ r.G.diverged \/ e.id \in BUILTIN_FUNCTION_NAMES THEN unchanged
       ELSE IF sc # << >> /\ BindsParameter(sc[Len(sc)], e.id)
       THEN LET arg == BoundArgument(sc[Len(sc)], e.id) IN
            IF arg.tn \notin DOMAIN declared_pointer_types
            THEN [unchanged EXCEPT !.I.error = UndeclaredPointerType(arg.tn)]
            ELSE With(transform_arg_call_typed(e1, declared_pointer_types[arg.tn], sc),
                      LAMBDA t :
                        [e |-> t.e, I |-> r.I,
                         G |-> [r.G EXCEPT
                                  !.panic = t.panic,
                                  !.rewrites = Append(@,
                                      [callee |-> e.id, binding |-> arg.e, args |-> e1.args,
                                       out |-> t.e, panic |-> t.panic, chain |-> sc])]])
       ELSE IF e.id \in DOMAIN declared_templates
       THEN With(transform_call(declared_templates[e.id], e1, r.I, sc, r.G), LAMBDA t :
                [e |-> t.e,
                 I |-> IF t.err # NoError THEN [r.I EXCEPT !.error = t.err] ELSE r.I,
                 G |-> t.G])
       ELSE unchanged)

\* InstantiateTemplate::transform_call
transform_call(template, e, I, sc, G) ==
    With(LocalScopeNew(template, e.args, I.symbol_table, sc), LAMBDA ls :
    LET fresh == ~template_instance_declared(G, ls.scope.name)
    IN IF fresh /\ Len(sc) >= MaxDepth
       THEN [e |-> e, err |-> NoError,
             G |-> [G EXCEPT !.diverged = TRUE,
                             !.cycle = \E j \in 1..Len(sc) : sc[j].name = ls.scope.name]]
       ELSE
       With(IF fresh THEN template_instantiate(template, Append(sc, ls.scope), I, G)
            ELSE [err |-> NoError, defs |-> << >>, G |-> G], LAMBDA t :
          IF t.err # NoError \/ t.G.panic \/ t.G.diverged
          THEN [e |-> [e EXCEPT !.args = ls.args], err |-> t.err, G |-> t.G]
          ELSE
          LET out == Call(ls.scope.name,
                          ls.args \o captured_arguments(ls.scope.captured_parameters))
              G2 == register_template_instance(t.G, t.defs, 1)
          IN [e |-> out, err |-> NoError,
              G |-> [G2 EXCEPT !.calls = Append(@,
                       [template |-> template.ast.name,
                        positions |-> {template.parameters[j].index + 1 :
                                          j \in 1..Len(template.parameters)},
                        stripped |-> template.ast.params,
                        args |-> e.args,
                        mangled |-> ls.scope.name,
                        fresh |-> fresh,
                        captured |-> ls.scope.captured_parameters,
                        enclosing |-> captured_parameters(sc),
                        depth |-> Len(sc),
                        out |-> out,
                        def |-> IF fresh THEN t.defs[Len(t.defs)] ELSE NoDefinition])]]))

\* TemplateDefinition::instantiate: a nested instantiator walks a copy of the
\* stripped definition with the local scope as the current scope; the copy
\* is renamed and receives the captured parameters as formals
template_instantiate(template, sc, outer, G) ==
    With(instantiate(InstantiateTemplateNew(outer.current_id), sc, template.ast, G),
         LAMBDA r :
            IF r.err # NoError \/ r.G.panic \/ r.G.diverged
            THEN [err |-> r.err, defs |-> << >>, G |-> r.G]
            ELSE [err |-> NoError,
                  defs |-> [r.defs EXCEPT ![Len(r.defs)] =
                              [@ EXCEPT
                                 !.name = sc[Len(sc)].name,
                                 !.params = @ \o captured_formals(
                                                    sc[Len(sc)].captured_parameters)]],
                  G |-> r.G])

visit_statements(body, i, I, sc, G) ==
    IF i > Len(body) THEN [body |-> body, I |-> I, G |-> G]
    ELSE IF body[i].k = "decl"
    THEN With(add_declared_locals(I, body[i], 1), LAMBDA declared :
            visit_statements(body, i + 1, declared, sc, G))
    ELSE With(visit_expr(body[i].e, I, sc, G), LAMBDA r :
            visit_statements([body EXCEPT ![i].e = r.e], i + 1, r.I, sc, r.G))

\* what one instantiator did in its walk of def at depth Len(sc): the counter
\* it started from and ended with, and its symbol table at the end
Walked(I, done, sc, def) ==
    [depth |-> Len(sc), def |-> def, first_id |-> I.current_id,
     current_id |-> done.current_id, symbol_table |-> done.symbol_table]

\* the walked definition is put before the pending instantiations
instantiate_definition_first(I, sc, def, G) ==
    With(add_declared_parameters(I, def.params, 1), LAMBDA declared :
    With(visit_statements(def.body, 1, declared, sc, G), LAMBDA r :
        [err |-> r.I.error,
         defs |-> <<[def EXCEPT !.body = r.body]>> \o r.G.instanced_templates,
         G |-> [r.G EXCEPT !.instanced_templates = << >>,
                           !.instantiators = Append(@, Walked(I, r.I, sc, def))]]))

\* InstantiateTemplate::instantiate: the walk, then the pending
\* instantiations are taken and the definition is pushed after them
instantiate(I, sc, def, G) ==
    With(add_declared_parameters(I, def.params, 1), LAMBDA declared :
    With(visit_statements(def.body, 1, declared, sc, G), LAMBDA r :
        [err |-> r.I.error,
         defs |-> Append(r.G.instanced_templates, [def EXCEPT !.body = r.body]),
         G |-> [r.G EXCEPT !.instanced_templates = << >>,
                           !.instantiators = Append(@, Walked(I, r.I, sc, def))]]))

(***************************************************************************)
(* The unit: one action per kind of top-level declaration.  Each is the    *)
(* whole of Unit::parse_external_declaration for that kind: the registry's *)
(* classification, the instantiation of an ordinary function definition,   *)
(* and the push of the resulting definitions.  Ingestion stops at the      *)
(* first error (transform_unit returns it).                                *)
(***************************************************************************)
\* show_function_parameter_declaration for each parameter, comma separated
RECURSIVE show_parameters(_, _)
show_parameters(params, i) ==
    IF i > Len(params) THEN ""
    ELSE (IF i > 1 THEN ", " ELSE "")
         \o params[i].ty \o (IF params[i].tyarr THEN "[]" ELSE "")
         \o (IF params[i].name = "" THEN "" ELSE " " \o params[i].name)
         \o (IF params[i].idarr THEN "[]" ELSE "")
         \o show_parameters(params, i + 1)

\* only the name is printed
prototype_name_only(prototype) == prototype.name

\* the prototype printed as GLSL (the prototypes of this model carry no
\* return type)
prototype_to_string(prototype) ==
    prototype.name \o "(" \o show_parameters(prototype.params, 1) \o ")"

\* Error::new_duplicate_pointer_definition
DuplicatePointerDefinition(name, previous) ==
    [kind |-> "DuplicatePointerDefinition", name |-> name,
     previous_declaration |-> prototype_to_string(previous)]

Panic == [kind |-> "Panic"]
\* assert!(scope != dependency) of DependencyDag::add_dep has failed
SelfReference == [kind |-> "Panic", at |-> "add_dep"]
\* the unreachable!() of MinUnit::parse_external_declaration was reached
Unreachable == [kind |-> "Panic", at |-> "unreachable"]
Diverged == [kind |-> "Diverged"]

TemplateDefinition(ast, parameters) == [ast |-> ast, parameters |-> parameters]

\* Unit::push_function_declaration for each definition, in order
RECURSIVE push_function_declarations(_, _, _)
push_function_declarations(known, defs, i) ==
    IF i > Len(defs) THEN known
    ELSE With(MapInsert(known, defs[i].name,
                        [name |-> defs[i].name, params |-> defs[i].params]),
              LAMBDA pushed : push_function_declarations(pushed, defs, i + 1))

\* the next declaration of the input: any declaration not ingested yet of
\* the source (MaxDecls of them at most), or the head of the translation
\* unit that is being transformed again
CanIngest(d) ==
    /\ failed = NoError
    /\ translation_unit = NoTranslationUnit
    /\ d \in source
    /\ IF first_output = NoTranslationUnit
       THEN ingested < MaxDecls
       ELSE queue # << >> /\ d = Head(queue)

Ingested(d, class, emitted, G) ==
    /\ source' = source \ {d}
    /\ queue' = IF queue = << >> THEN queue ELSE Tail(queue)
    /\ ingested' = ingested + 1
    /\ UNCHANGED <<translation_unit, first_output>>
    /\ last' = [decl |-> d, class |-> class, emitted |-> emitted,
                calls |-> G.calls, rewrites |-> G.rewrites,
                known |-> DOMAIN known_functions, cycle |-> G.cycle,
                handle |-> G.handle, instantiators |-> G.instantiators]

WalkStart ==
    [instantiated_templates |-> instantiated_templates,
     instanced_templates |-> instanced_templates,
     calls |-> << >>, rewrites |-> << >>, panic |-> FALSE, diverged |-> FALSE,
     cycle |-> FALSE, handle |-> NoHandle, instantiators |-> << >>]

\* a bodyless prototype: GlobalScope::parse_function_prototype
IngestPrototype ==
    \E d \in source :
        /\ CanIngest(d)
        /\ d.k = "proto"
        /\ IF d.name \in DOMAIN declared_pointer_types
           THEN /\ failed' = DuplicatePointerDefinition(d.name, declared_pointer_types[d.name])
                /\ Ingested(d, "Error", << >>, WalkStart)
                /\ UNCHANGED <<declared_pointer_types, consumed>>
           ELSE /\ declared_pointer_types' = MapInsert(declared_pointer_types, d.name, d)
                /\ consumed' = consumed \cup {d}
                /\ Ingested(d, "ConsumedAsType", << >>, WalkStart)
                /\ UNCHANGED failed
        /\ UNCHANGED <<declared_templates, known_functions, instantiated_templates,
                       instanced_templates, external_declarations, probe,
                       dag, static_declarations>>

\* a function definition: GlobalScope::parse_function_definition, then for an
\* ordinary function InstantiateTemplate::new(None).instantiate and the push
\* of every definition it returns
IngestFunctionDefinition ==
    \E d \in source :
        /\ CanIngest(d)
        /\ d.k = "fn"
        /\ \E p \in {parse_definition_as_template(d, declared_pointer_types)} :
           \E r \in {IF p.kind = "Function"
                      THEN instantiate(InstantiateTemplateNew(0), << >>, p.ast, WalkStart)
                      ELSE [err |-> NoError, defs |-> << >>, G |-> WalkStart]} :
              IF p.kind = "Error"
              THEN /\ failed' = p.err
                   /\ Ingested(d, "Error", << >>, WalkStart)
                   /\ UNCHANGED <<declared_templates, known_functions, instantiated_templates,
                                  instanced_templates, external_declarations, consumed>>
              ELSE IF p.kind = "Template"
              THEN /\ declared_templates' =
                          MapInsert(declared_templates, d.name,
                                    TemplateDefinition(p.ast, p.parameters))
                   /\ consumed' = consumed \cup {d}
                   /\ Ingested(d, "ConsumedAsTemplate", << >>, WalkStart)
                   /\ UNCHANGED <<known_functions, instantiated_templates,
                                  instanced_templates, external_declarations, failed>>
              ELSE IF r.G.panic \/ r.G.diverged
              THEN /\ failed' = IF r.G.panic THEN Panic ELSE Diverged
                   /\ Ingested(d, "Error", << >>, r.G)
                   /\ UNCHANGED <<declared_templates, known_functions, instantiated_templates,
                                  instanced_templates, external_declarations, consumed>>
              ELSE IF r.err # NoError
              THEN /\ failed' = r.err
                   /\ instantiated_templates' = r.G.instantiated_templates
                   /\ instanced_templates' = r.G.instanced_templates
                   /\ Ingested(d, "Error", << >>, r.G)
                   /\ UNCHANGED <<declared_templates, known_functions,
                                  external_declarations, consumed>>
              ELSE /\ instantiated_templates' = r.G.instantiated_templates
                   /\ instanced_templates' = r.G.instanced_templates
                   /\ known_functions' = push_function_declarations(known_functions, r.defs, 1)
                   /\ external_declarations' = external_declarations \o r.defs
                   /\ Ingested(d, "Unparsed", r.defs, r.G)
                   /\ UNCHANGED <<declared_templates, consumed, failed>>
        /\ UNCHANGED <<declared_pointer_types, probe, dag, static_declarations>>

\* any other declaration is forwarded to the output
IngestOther ==
    \E d \in source :
        /\ CanIngest(d)
        /\ d.k = "other"
        /\ external_declarations' = Append(external_declarations, d)
        /\ Ingested(d, "Unparsed", <<d>>, WalkStart)
        /\ UNCHANGED <<declared_pointer_types, declared_templates, known_functions,
                       instantiated_templates, instanced_templates, consumed, failed, probe,
                       dag, static_declarations>>

EmptyInput == [kind |-> "EmptyInput"]

\* the declarations are returned last first
reversed_translation_unit(decls) ==
    [kind |-> "Ok",
     declarations |-> [i \in 1..Len(decls) |-> decls[Len(decls) + 1 - i]],
     wanted |-> << >>]

\* TranslationUnit(NonEmpty::from_non_empty_iter(external_declarations))
translation_unit_of(decls) ==
    [kind |-> "Ok", declarations |-> decls, wanted |-> << >>]

\* Unit::into_translation_unit, called by transform once transform_unit has
\* ingested the whole input: the declarations of the unit in their order, or
\* EmptyInput when there is none
UnitIntoTranslationUnit ==
    /\ failed = NoError
    /\ translation_unit = NoTranslationUnit
    /\ first_output # NoTranslationUnit => queue = << >>
    /\ IF external_declarations = << >>
       THEN /\ failed' = EmptyInput
            /\ UNCHANGED translation_unit
       ELSE /\ translation_unit' = translation_unit_of(external_declarations)
            /\ UNCHANGED failed
    /\ UNCHANGED <<declared_pointer_types, declared_templates, known_functions,
                   instantiated_templates, instanced_templates, external_declarations,
                   source, ingested, consumed, last, probe, dag, static_declarations,
                   queue, first_output>>

\* transform called on the translation unit that transform returned: a new
\* unit, whose input is the declarations of that translation unit in order
TransformAgain ==
    /\ translation_unit.kind = "Ok"
    /\ first_output = NoTranslationUnit
    /\ declared_pointer_types' = EmptyMap
    /\ declared_templates' = EmptyMap
    /\ known_functions' = EmptyMap
    /\ instantiated_templates' = {}
    /\ instanced_templates' = << >>
    /\ external_declarations' = << >>
    /\ source' = Range(translation_unit.declarations)
    /\ queue' = translation_unit.declarations
    /\ first_output' = translation_unit
    /\ translation_unit' = NoTranslationUnit
    /\ ingested' = 0
    /\ consumed' = {}
    /\ last' = NoIngest
    /\ UNCHANGED <<failed, probe, dag, static_declarations>>

(***************************************************************************)
(* The minifying unit (transform/min_unit.rs) and its dependency graph     *)
(* (transform/min_unit/dependency_dag.rs).  The unit stores declarations   *)
(* under ExternalIdentifier keys in external_declarations (an IndexMap).   *)
(***************************************************************************)
\* top-level declarations only the minifying unit tells apart.  idents are
\* the identifiers of a define's value; fields are the members of a struct
Define(name, params, idents) ==
    [k |-> "define", name |-> name, params |-> params, body |-> idents, fnlike |-> FALSE]
DefineFunctionLike(name, params, idents) ==
    [k |-> "define", name |-> name, params |-> params, body |-> idents, fnlike |-> TRUE]
\* #version, #extension; any other directive (#pragma, #line, #ifdef, ...)
Directive(kind, name) == [k |-> kind, name |-> name, params |-> << >>, body |-> << >>]
\* init declarator list whose head type is a struct specifier ("" when the
\* struct is anonymous), with the head variable's name ("" when none)
StructDeclaration(name, fields, variable) ==
    [k |-> "struct", name |-> name, params |-> fields, body |-> << >>, variable |-> variable]
\* init declarator list with another head type ("" when no name is declared)
VariableDeclaration(ty, name) ==
    [k |-> "variable", name |-> name, params |-> <<Param(ty, name)>>, body |-> << >>]
\* precision declaration, interface block
StaticDeclaration(kind, name) == [k |-> kind, name |-> name, params |-> << >>, body |-> << >>]
\* Declaration::Global(qualifier, identifiers)
GlobalDeclaration(identifiers) ==
    [k |-> "global", name |-> "", params |-> << >>, body |-> identifiers]

UnsupportedPreprocessor(d) == [kind |-> "UnsupportedPreprocessor", decl |-> d]
\* the other error of the minifying mode
UnsupportedIDLAsPreprocessor(d) == [kind |-> "UnsupportedPreprocessor", decl |-> d]
UnsupportedIDL(d) == [kind |-> "UnsupportedIDL", decl |-> d]

\* the type specifiers the parser reads as TypeSpecifierNonArray::TypeName
BuiltinTypeNames == {"", "void", "int", "float", "vec4"}
IsTypeName(ty) == ty \notin BuiltinTypeNames

ExternalIdentifier(kind, name) == [kind |-> kind, name |-> name]
FunctionDefinitionKey(name) == ExternalIdentifier("FunctionDefinition", name)
DeclarationKey(name) == ExternalIdentifier("Declaration", name)
\* the node into_dependencies adds for the wanted roots has no symbol
NoSymbol == ExternalIdentifier("None", "")

IndexOfSymbol(g, symbol) ==
    IF \E i \in 1..Len(g.symbol_map) : g.symbol_map[i] = symbol
    THEN CHOOSE i \in 1..Len(g.symbol_map) : g.symbol_map[i] = symbol
    ELSE 0

\* DependencyDag::symbol_to_id (and declare_symbol): the node of the symbol,
\* added when the symbol has none
symbol_to_id(g, symbol) ==
    With(IndexOfSymbol(g, symbol), LAMBDA id :
        IF id # 0 THEN [dag |-> g, id |-> id]
        ELSE [dag |-> [g EXCEPT !.symbol_map = Append(@, symbol)],
              id |-> Len(g.symbol_map) + 1])

\* DependencyDag::add_dep on the visitor's state X = [dag, csn, panic]: the
\* assertion fails on a self-reference
add_dep(X, scope, dependency) ==
    IF scope = dependency THEN [X EXCEPT !.panic = TRUE]
    ELSE [X EXCEPT !.dag.edges = Append(@, <<scope, dependency>>)]

\* the nodes the syntax-tree visitor reaches in an expression, in its order:
\* a called identifier is visited as a function identifier, then as an
\* identifier
RECURSIVE ExprVisits(_)
RECURSIVE ExprsVisits(_, _)
ExprsVisits(es, i) ==
    IF i > Len(es) THEN << >> ELSE ExprVisits(es[i]) \o ExprsVisits(es, i + 1)

ExprVisits(e) ==
    CASE e.k = "var" -> <<[v |-> "identifier", name |-> e.id]>>
      [] e.k = "lit" -> << >>
      [] e.k = "bin" -> ExprsVisits(e.args, 1)
      [] e.k = "call" ->
            <<[v |-> "fun_identifier", name |-> e.id], [v |-> "identifier", name |-> e.id]>>
            \o ExprsVisits(e.args, 1)

TypeVisits(ty) == IF IsTypeName(ty) THEN <<[v |-> "type_name", name |-> ty]>> ELSE << >>

IdentifierVisits(name) ==
    IF name = "" THEN << >> ELSE <<[v |-> "identifier", name |-> name]>>

RECURSIVE ParameterVisits(_, _)
ParameterVisits(params, i) ==
    IF i > Len(params) THEN << >>
    ELSE TypeVisits(params[i].ty) \o IdentifierVisits(params[i].name)
         \o ParameterVisits(params, i + 1)

RECURSIVE NameVisits(_, _)
NameVisits(names, i) ==
    IF i > Len(names) THEN << >>
    ELSE IdentifierVisits(names[i]) \o NameVisits(names, i + 1)

RECURSIVE StatementVisits(_, _)
StatementVisits(body, i) ==
    IF i > Len(body) THEN << >>
    ELSE (IF body[i].k = "decl"
          THEN TypeVisits(body[i].ty) \o NameVisits(body[i].names, 1)
          ELSE ExprVisits(body[i].e))
         \o StatementVisits(body, i + 1)

\* the visits of a declaration below its first node
DeclarationVisits(d) ==
    CASE d.k = "fn" ->
            IdentifierVisits(d.name) \o ParameterVisits(d.params, 1) \o StatementVisits(d.body, 1)
      [] d.k = "struct" ->
            <<[v |-> "type_name", name |-> d.name]>> \o ParameterVisits(d.params, 1)
            \o IdentifierVisits(d.variable)
      [] OTHER -> << >>

\* VisitorData::visit_type_name
visit_type_name(X, name) ==
    IF X.csn = 0 THEN X
    ELSE With(symbol_to_id(X.dag, DeclarationKey(name)), LAMBDA r :
            IF r.id # X.csn THEN add_dep([X EXCEPT !.dag = r.dag], X.csn, r.id)
            ELSE [X EXCEPT !.dag = r.dag])

\* VisitorData::visit_fun_identifier
visit_fun_identifier(X, name) ==
    IF X.csn = 0 THEN X
    ELSE With(symbol_to_id(X.dag, FunctionDefinitionKey(name)), LAMBDA r :
            add_dep([X EXCEPT !.dag = r.dag], X.csn, r.id))

\* VisitorData::visit_identifier: only the identifiers of the declarations
\* the unit has stored
visit_identifier(X, name, stored) ==
    IF ~IndexMapHas(stored, DeclarationKey(name)) \/ X.csn = 0 THEN X
    ELSE With(symbol_to_id(X.dag, DeclarationKey(name)), LAMBDA r :
            add_dep([X EXCEPT !.dag = r.dag], X.csn, r.id))

RECURSIVE visit_all(_, _, _, _)
visit_all(X, visits, i, stored) ==
    IF i > Len(visits) \/ X.panic THEN X
    ELSE With(CASE visits[i].v = "type_name" -> visit_type_name(X, visits[i].name)
                [] visits[i].v = "fun_identifier" -> visit_fun_identifier(X, visits[i].name)
                [] visits[i].v = "identifier" -> visit_identifier(X, visits[i].name, stored),
              LAMBDA visited : visit_all(visited, visits, i + 1, stored))

\* VisitorData::visit_preprocessor_define: the define's symbol depends on
\* every identifier of its value
RECURSIVE visit_preprocessor_define(_, _, _)
visit_preprocessor_define(X, idents, i) ==
    IF i > Len(idents) \/ X.panic THEN X
    ELSE With(symbol_to_id(X.dag, DeclarationKey(idents[i])), LAMBDA r :
         With(add_dep([X EXCEPT !.dag = r.dag], X.csn, r.id), LAMBDA added :
            visit_preprocessor_define(added, idents, i + 1)))

\* MinUnit::extend_dag over one declaration: the first node visited sets the
\* current scope name, the nodes below it add the dependencies
extend_dag(g, d, stored) ==
    With(CASE d.k = "fn" -> symbol_to_id(g, FunctionDefinitionKey(d.name))
           [] d.k = "define" -> symbol_to_id(g, DeclarationKey(d.name))
           [] d.k = "struct" /\ d.name # "" -> symbol_to_id(g, DeclarationKey(d.name))
           [] OTHER -> [dag |-> g, id |-> 0],
         LAMBDA r :
            IF d.k = "define"
            THEN visit_preprocessor_define([dag |-> r.dag, csn |-> r.id, panic |-> FALSE],
                                           d.body, 1)
            ELSE visit_all([dag |-> r.dag, csn |-> r.id, panic |-> FALSE],
                           DeclarationVisits(d), 1, stored))

\* MinUnit::push_function_declaration for each definition, in order, on
\* U = [known, dag, stored, panic]
RECURSIVE min_push_function_declarations(_, _, _)
min_push_function_declarations(U, defs, i) ==
    IF i > Len(defs) \/ U.panic THEN U
    ELSE With(extend_dag(U.dag, defs[i], U.stored), LAMBDA X :
         With([known |-> MapInsert(U.known, defs[i].name,
                                   [name |-> defs[i].name, params |-> defs[i].params]),
               dag |-> X.dag,
               stored |-> IndexMapInsert(U.stored, FunctionDefinitionKey(defs[i].name), defs[i]),
               panic |-> X.panic],
              LAMBDA pushed : min_push_function_declarations(pushed, defs, i + 1)))

\* no edge is followed
no_neighbors(edges, n, i) == << >>

\* Graph::neighbors: the targets of the edges that leave n, the edge added
\* last first
RECURSIVE neighbors(_, _, _)
neighbors(edges, n, i) ==
    IF i = 0 THEN << >>
    ELSE (IF edges[i][1] = n THEN <<edges[i][2]>> ELSE << >>) \o neighbors(edges, n, i - 1)

RECURSIVE push_undiscovered(_, _, _, _)
push_undiscovered(stack, succs, i, discovered) ==
    IF i > Len(succs) THEN stack
    ELSE push_undiscovered(IF succs[i] \in discovered THEN stack ELSE Append(stack, succs[i]),
                           succs, i + 1, discovered)

\* the same walk emitting each node when it is discovered
RECURSIVE DfsPreOrder(_, _, _, _, _)
DfsPreOrder(edges, stack, discovered, finished, res) ==
    IF stack = << >> THEN res
    ELSE LET nx == stack[Len(stack)] IN
         IF nx \notin discovered
         THEN With(push_undiscovered(stack, neighbors(edges, nx, Len(edges)), 1,
                                     discovered \cup {nx}),
                   LAMBDA pushed :
                      DfsPreOrder(edges, pushed, discovered \cup {nx}, finished,
                                  Append(res, nx)))
         ELSE DfsPreOrder(edges, SubSeq(stack, 1, Len(stack) - 1), discovered,
                          finished, res)

\* petgraph::visit::DfsPostOrder, run to its end
RECURSIVE DfsPostOrder(_, _, _, _, _)
DfsPostOrder(edges, stack, discovered, finished, res) ==
    IF stack = << >> THEN res
    ELSE LET nx == stack[Len(stack)] IN
         IF nx \notin discovered
         THEN With(push_undiscovered(stack, neighbors(edges, nx, Len(edges)), 1,
                                     discovered \cup {nx}),
                   LAMBDA pushed :
                      DfsPostOrder(edges, pushed, discovered \cup {nx}, finished, res))
         ELSE DfsPostOrder(edges, SubSeq(stack, 1, Len(stack) - 1), discovered,
                           finished \cup {nx},
                           IF nx \in finished THEN res ELSE Append(res, nx))

\* the edges from the wanted node to the wanted roots
RECURSIVE add_wanted(_, _, _, _)
add_wanted(g, wanted_id, wanted, i) ==
    IF i > Len(wanted) THEN g
    ELSE With(symbol_to_id(g, FunctionDefinitionKey(wanted[i])), LAMBDA r :
            add_wanted([r.dag EXCEPT !.edges = Append(@, <<wanted_id, r.id>>)],
                       wanted_id, wanted, i + 1))

\* DependencyDag::into_dependencies: the symbols of the nodes reached from the
\* wanted node, in post-order
into_dependencies(g, wanted) ==
    With(add_wanted([g EXCEPT !.symbol_map = Append(@, NoSymbol)],
                    Len(g.symbol_map) + 1, wanted, 1),
         LAMBDA w :
            LET order == DfsPostOrder(w.edges, <<Len(g.symbol_map) + 1>>, {}, {}, << >>)
                symbols == [i \in 1..Len(order) |-> w.symbol_map[order[i]]]
            IN AtPositions(symbols, {i \in 1..Len(symbols) : symbols[i] # NoSymbol}, 1))

\* filter_map(|id| stored_decls.remove(&id))
RECURSIVE remove_stored(_, _, _, _)
remove_stored(ids, i, stored, res) ==
    IF i > Len(ids) THEN res
    ELSE IF IndexMapHas(stored, ids[i])
    THEN remove_stored(ids, i + 1,
                       AtPositions(stored, (1..Len(stored)) \ {IndexOfKey(stored, ids[i])}, 1),
                       Append(res, IndexMapGet(stored, ids[i])))
    ELSE remove_stored(ids, i + 1, stored, res)

\* the static declarations are put after the reached ones
min_into_translation_unit_static_last(wanted) ==
    [kind |-> "Ok",
     declarations |->
        remove_stored(into_dependencies(dag, wanted), 1, external_declarations, << >>)
        \o static_declarations,
     wanted |-> wanted]

\* MinUnit::into_translation_unit
min_into_translation_unit(wanted) ==
    [kind |-> "Ok",
     declarations |->
        static_declarations
        \o remove_stored(into_dependencies(dag, wanted), 1, external_declarations, << >>),
     wanted |-> wanted]

\* ExternalDeclarationData::FunctionDefinition(_)
IsFunctionDefinition(d) == d.k = "fn"

\* a function definition: GlobalScope::parse_function_definition, then for an
\* ordinary function the instantiation and MinUnit::push_function_declaration
\* of every definition it returns; the handle returned is made of the last
\* entry of external_declarations
MinIngestFunctionDefinition ==
    \E d \in source :
        /\ CanIngest(d)
        /\ d.k = "fn"
        /\ \E p \in {parse_definition_as_template(d, declared_pointer_types)} :
           \E r \in {IF p.kind = "Function"
                      THEN instantiate(InstantiateTemplateNew(0), << >>, p.ast, WalkStart)
                      ELSE [err |-> NoError, defs |-> << >>, G |-> WalkStart]} :
           \E U \in {IF r.err # NoError \/ r.G.panic \/ r.G.diverged
                      THEN [known |-> known_functions, dag |-> dag,
                            stored |-> external_declarations, panic |-> FALSE]
                      ELSE min_push_function_declarations(
                               [known |-> known_functions, dag |-> dag,
                                stored |-> external_declarations, panic |-> FALSE],
                               r.defs, 1)} :
              IF p.kind = "Error"
              THEN /\ failed' = p.err
                   /\ Ingested(d, "Error", << >>, WalkStart)
                   /\ UNCHANGED <<declared_templates, known_functions, instantiated_templates,
                                  instanced_templates, external_declarations, consumed, dag>>
              ELSE IF p.kind = "Template"
              THEN /\ declared_templates' =
                          MapInsert(declared_templates, d.name,
                                    TemplateDefinition(p.ast, p.parameters))
                   /\ consumed' = consumed \cup {d}
                   /\ Ingested(d, "ConsumedAsTemplate", << >>, WalkStart)
                   /\ UNCHANGED <<known_functions, instantiated_templates,
                                  instanced_templates, external_declarations, failed, dag>>
              ELSE IF r.G.panic \/ r.G.diverged \/ U.panic
              THEN /\ failed' = IF r.G.diverged THEN Diverged
                                ELSE IF r.G.panic THEN Panic ELSE SelfReference
                   /\ Ingested(d, "Error", << >>, r.G)
                   /\ UNCHANGED <<declared_templates, known_functions, instantiated_templates,
                                  instanced_templates, external_declarations, consumed, dag>>
              ELSE IF r.err # NoError
              THEN /\ failed' = r.err
                   /\ instantiated_templates' = r.G.instantiated_templates
                   /\ instanced_templates' = r.G.instanced_templates
                   /\ Ingested(d, "Error", << >>, r.G)
                   /\ UNCHANGED <<declared_templates, known_functions,
                                  external_declarations, consumed, dag>>
              ELSE IF r.err = NoError /\ ~IsFunctionDefinition(U.stored[Len(U.stored)].val)
              THEN /\ failed' = Unreachable
                   /\ Ingested(d, "Error", << >>, r.G)
                   /\ UNCHANGED <<declared_templates, known_functions, instantiated_templates,
                                  instanced_templates, external_declarations, consumed, dag>>
              ELSE /\ instantiated_templates' = r.G.instantiated_templates
                   /\ instanced_templates' = r.G.instanced_templates
                   /\ known_functions' = U.known
                   /\ dag' = U.dag
                   /\ external_declarations' = U.stored
                   /\ Ingested(d, "Unparsed", r.defs,
                               [r.G EXCEPT !.handle = U.stored[Len(U.stored)].val])
                   /\ UNCHANGED <<declared_templates, consumed, failed>>
        /\ UNCHANGED <<declared_pointer_types, probe, static_declarations>>

\* a preprocessor directive: a define is stored and enters the graph, a
\* version or extension directive is static, any other is unsupported
MinIngestPreprocessor ==
    \E d \in source :
        /\ CanIngest(d)
        /\ d.k \in {"define", "version", "extension", "pp"}
        /\ \E X \in {extend_dag(dag, d, external_declarations)} :
              IF d.k = "define"
              THEN IF X.panic
                   THEN /\ failed' = SelfReference
                        /\ Ingested(d, "Error", << >>, WalkStart)
                        /\ UNCHANGED <<dag, external_declarations, static_declarations>>
                   ELSE /\ dag' = X.dag
                        /\ external_declarations' =
                              IndexMapInsert(external_declarations,
                                  IF d.fnlike THEN FunctionDefinitionKey(d.name)
                                              ELSE DeclarationKey(d.name), d)
                        /\ Ingested(d, "Unparsed", <<d>>, WalkStart)
                        /\ UNCHANGED <<failed, static_declarations>>
              ELSE IF d.k \in {"version", "extension"}
              THEN /\ static_declarations' = Append(static_declarations, d)
                   /\ Ingested(d, "Unparsed", <<d>>, WalkStart)
                   /\ UNCHANGED <<failed, dag, external_declarations>>
              ELSE /\ failed' = UnsupportedPreprocessor(d)
                   /\ Ingested(d, "Error", << >>, WalkStart)
                   /\ UNCHANGED <<dag, external_declarations, static_declarations>>
        /\ UNCHANGED <<declared_pointer_types, declared_templates, known_functions,
                       instantiated_templates, instanced_templates, consumed, probe>>

\* the identifiers of a global declaration, each stored on its own
RECURSIVE insert_globals(_, _, _)
insert_globals(stored, identifiers, i) ==
    IF i > Len(identifiers) THEN stored
    ELSE With(IndexMapInsert(stored, DeclarationKey(identifiers[i]),
                             GlobalDeclaration(<<identifiers[i]>>)),
              LAMBDA inserted : insert_globals(inserted, identifiers, i + 1))

\* a declaration that is not a prototype: a named struct is stored and
\* enters the graph, a named variable and the identifiers of a global
\* declaration are stored, precision declarations and blocks are static
MinIngestDeclaration ==
    \E d \in source :
        /\ CanIngest(d)
        /\ d.k \in {"struct", "variable", "precision", "block", "global"}
        /\ \E X \in {extend_dag(dag, d, external_declarations)} :
              IF d.k = "struct" /\ d.name # ""
              THEN IF X.panic
                   THEN /\ failed' = SelfReference
                        /\ Ingested(d, "Error", << >>, WalkStart)
                        /\ UNCHANGED <<dag, external_declarations, static_declarations>>
                   ELSE /\ dag' = X.dag
                        /\ external_declarations' =
                              IndexMapInsert(external_declarations, DeclarationKey(d.name), d)
                        /\ Ingested(d, "Unparsed", <<d>>, WalkStart)
                        /\ UNCHANGED <<failed, static_declarations>>
              ELSE IF d.k = "variable" /\ d.name # ""
              THEN /\ external_declarations' =
                         IndexMapInsert(external_declarations, DeclarationKey(d.name), d)
                   /\ Ingested(d, "Unparsed", <<d>>, WalkStart)
                   /\ UNCHANGED <<failed, dag, static_declarations>>
              ELSE IF d.k \in {"struct", "variable"}
              THEN /\ failed' = UnsupportedIDL(d)
                   /\ Ingested(d, "Error", << >>, WalkStart)
                   /\ UNCHANGED <<dag, external_declarations, static_declarations>>
              ELSE IF d.k \in {"precision", "block"}
              THEN /\ static_declarations' = Append(static_declarations, d)
                   /\ Ingested(d, "Unparsed", <<d>>, WalkStart)
                   /\ UNCHANGED <<failed, dag, external_declarations>>
              ELSE /\ external_declarations' = insert_globals(external_declarations, d.body, 1)
                   /\ Ingested(d, "Unparsed", <<d>>, WalkStart)
                   /\ UNCHANGED <<failed, dag, static_declarations>>
        /\ UNCHANGED <<declared_pointer_types, declared_templates, known_functions,
                       instantiated_templates, instanced_templates, consumed, probe>>

(***************************************************************************)
(* The sources the unit ingests: each is a set of top-level declarations,  *)
(* ingested in any order, each at most once, MaxDecls of them at most.     *)
(***************************************************************************)
D_F1 == Proto("F1", <<Param("int", "x")>>)
D_F1_again == Proto("F1", <<Param("float", "x")>>)
D_F2 == Proto("F2", <<Param("int", "x"), Param("int", "y")>>)
D_uniform == Other("u")
D_f == Fn("f", <<Param("int", "x")>>, <<Stmt(Var("x"))>>)
D_g == Fn("g", <<Param("int", "x")>>, <<Stmt(Bin("+", Var("x"), Lit("1")))>>)

\* int apply(F1 cb) { return cb(1); }
D_apply == Fn("apply", <<Param("F1", "cb")>>, <<Stmt(Call("cb", <<Lit("1")>>))>>)

\* void mainS() { apply(f); apply(g); apply(f); apply(_1 * 2); }
D_mainS ==
    Fn("mainS", << >>,
       << Stmt(Call("apply", <<Var("f")>>)), Stmt(Call("apply", <<Var("g")>>)),
          Stmt(Call("apply", <<Var("f")>>)),
          Stmt(Call("apply", <<Bin("*", Var("_1"), Lit("2"))>>)) >>)

\* int tpl2(int a, F1 cb1, F1 cb2, float b[]) { return cb1(a) + cb2(a); }
D_tpl2 ==
    Fn("tpl2",
       <<Param("int", "a"), Param("F1", "cb1"), Param("F1", "cb2"),
         ParamArr("float", "b", FALSE, TRUE)>>,
       <<Stmt(Bin("+", Call("cb1", <<Var("a")>>), Call("cb2", <<Var("a")>>)))>>)

\* void m2(float d, int c) { int e, h; tpl2(c, _1 * (e * d), _x + c, d); }
D_m2 ==
    Fn("m2", <<Param("float", "d"), Param("int", "c")>>,
       << Decl("int", <<"e", "h">>),
          Stmt(Call("tpl2",
                    << Var("c"), Bin("*", Var("_1"), Bin("*", Var("e"), Var("d"))),
                       Bin("+", Var("_x"), Var("c")), Var("d") >>)) >>)

\* void m2s(int c) { tpl2(abs(c), f, _1, c); }
D_m2s ==
    Fn("m2s", <<Param("int", "c")>>,
       <<Stmt(Call("tpl2", <<Call("abs", <<Var("c")>>), Var("f"), Var("_1"), Var("c")>>))>>)

\* int outer(F1 cbo) { return apply(cbo); }
D_outer == Fn("outer", <<Param("F1", "cbo")>>, <<Stmt(Call("apply", <<Var("cbo")>>))>>)

\* void m3() { outer(f); }
D_m3 == Fn("m3", << >>, <<Stmt(Call("outer", <<Var("f")>>))>>)

\* void m3c(int c) { outer(_1 * c); apply(f); }
D_m3c ==
    Fn("m3c", <<Param("int", "c")>>,
       << Stmt(Call("outer", <<Bin("*", Var("_1"), Var("c"))>>)),
          Stmt(Call("apply", <<Var("f")>>)) >>)

\* int outerL(F1 cbo) { return apply(_1 + 1) + cbo(2); }
D_outerL ==
    Fn("outerL", <<Param("F1", "cbo")>>,
       <<Stmt(Bin("+", Call("apply", <<Bin("+", Var("_1"), Lit("1"))>>),
                       Call("cbo", <<Lit("2")>>)))>>)

\* void mA() { int c; outerL(_1 * c); }
D_mA ==
    Fn("mA", << >>,
       <<Decl("int", <<"c">>), Stmt(Call("outerL", <<Bin("*", Var("_1"), Var("c"))>>))>>)

\* void mB() { outerL(_1 * 2); }
D_mB == Fn("mB", << >>, <<Stmt(Call("outerL", <<Bin("*", Var("_1"), Lit("2"))>>))>>)

\* int sh(F1 cb, F1 f) { return cb(1); }
D_sh == Fn("sh", <<Param("F1", "cb"), Param("F1", "f")>>, <<Stmt(Call("cb", <<Lit("1")>>))>>)

\* void m5() { sh(f, g); }
D_m5 == Fn("m5", << >>, <<Stmt(Call("sh", <<Var("f"), Var("g")>>))>>)

\* int app2(F1 cb) { return cb(1, 2); }
D_app2 == Fn("app2", <<Param("F1", "cb")>>, <<Stmt(Call("cb", <<Lit("1"), Lit("2")>>))>>)

\* void m6() { app2(_1); }
D_m6 == Fn("m6", << >>, <<Stmt(Call("app2", <<Var("_1")>>))>>)

\* void mi() { int c; apply(_1 * c); }    void mf() { float c; apply(_1 * c); }
D_mi ==
    Fn("mi", << >>,
       <<Decl("int", <<"c">>), Stmt(Call("apply", <<Bin("*", Var("_1"), Var("c"))>>))>>)
D_mf ==
    Fn("mf", << >>,
       <<Decl("float", <<"c">>), Stmt(Call("apply", <<Bin("*", Var("_1"), Var("c"))>>))>>)

\* int tarr(F1[2] cbs) { }    int h(F2 k) { return k(1, 2); }
D_tarr == Fn("tarr", <<ParamArr("F1", "cbs", TRUE, FALSE)>>, << >>)
D_h == Fn("h", <<Param("F2", "k")>>, <<Stmt(Call("k", <<Lit("1"), Lit("2")>>))>>)

\* int rec(F1 cb) { return rec(cb); }    void mr() { rec(f); }
D_rec == Fn("rec", <<Param("F1", "cb")>>, <<Stmt(Call("rec", <<Var("cb")>>))>>)
D_mr == Fn("mr", << >>, <<Stmt(Call("rec", <<Var("f")>>))>>)

\* void sd(int x) { int y; { float x; } F1 p; int z; }
D_sd ==
    Fn("sd", <<Param("int", "x")>>,
       << Decl("int", <<"y">>), Decl("float", <<"x">>), Decl("F1", <<"p">>),
          Decl("int", <<"z">>) >>)

\* void m2w(int c) { tpl2(abs(c), f, _1, c); int w; }
D_m2w ==
    Fn("m2w", <<Param("int", "c")>>,
       << Stmt(Call("tpl2", <<Call("abs", <<Var("c")>>), Var("f"), Var("_1"), Var("c")>>)),
          Decl("int", <<"w">>) >>)

\* int outerC(F1 cbo, int c) { return sh(cbo, _1 + c); }
D_outerC ==
    Fn("outerC", <<Param("F1", "cbo"), Param("int", "c")>>,
       <<Stmt(Call("sh", <<Var("cbo"), Bin("+", Var("_1"), Var("c"))>>))>>)

\* void mC(int c) { outerC(_1 * c, 5); }
D_mC ==
    Fn("mC", <<Param("int", "c")>>,
       <<Stmt(Call("outerC", <<Bin("*", Var("_1"), Var("c")), Lit("5")>>))>>)

Sources ==
    { {D_F1, D_f, D_g, D_apply, D_mainS, D_uniform},
      {D_F1, D_f, D_tpl2, D_m2, D_m2s},
      {D_F1, D_f, D_apply, D_outer, D_m3, D_m3c},
      {D_F1, D_apply, D_outerL, D_mA, D_mB},
      {D_F1, D_f, D_g, D_sh, D_m5},
      {D_F1, D_app2, D_m6, D_apply, D_mi, D_mf},
      {D_F1, D_F1_again, D_F2, D_uniform, D_h, D_tarr},
      {D_F1, D_f, D_rec, D_mr},
      {D_F1, D_sd, D_f, D_tpl2, D_m2w},
      {D_F1, D_sh, D_outerC, D_mC} }

Init ==
    /\ \E src \in Sources : UnitInit(src)
    /\ probe = [op |-> "none"]

Next ==
    \/ IngestPrototype
    \/ IngestFunctionDefinition
    \/ IngestOther
    \/ UnitIntoTranslationUnit
    \/ TransformAgain

Spec == Init /\ [][Next]_vars

(***************************************************************************)
(* Properties of the unit.                                                 *)
(***************************************************************************)
CallEvents == {last.calls[i] : i \in 1..Len(last.calls)}

RewriteEvents == {last.rewrites[i] : i \in 1..Len(last.rewrites)}

\* C1: a call site that creates a fresh specialization gets the mangled name
\* as callee and, as arguments, its non-template arguments in their original
\* order followed by one variable per captured parameter (its name at the
\* call site) in capture-list order; the specialization has the mangled
\* name and, as formals, the stripped parameters followed by one formal per
\* captured parameter (declared type, array specifier, generated name) in
\* the same order.
FreshSpecializationCarriesCaptures ==
    \A ev \in CallEvents :
        ev.fresh =>
            /\ ev.out.k = "call"
            /\ ev.out.id = ev.mangled
            /\ ev.out.args =
                  AtPositions(ev.args, (1..Len(ev.args)) \ ev.positions, 1)
                  \o [j \in 1..Len(ev.captured) |-> Var(ev.captured[j].ident)]
            /\ ev.def.name = ev.mangled
            /\ ev.def.params =
                  ev.stripped
                  \o [j \in 1..Len(ev.captured) |->
                         [ty |-> ev.captured[j].ty, tyarr |-> ev.captured[j].tyarr,
                          name |-> ev.captured[j].gen_id, idarr |-> ev.captured[j].array]]

\* a fresh specialization with three captures and two ordinary arguments was
\* pushed to the output
FreshSpecializationWithCapturesPushed ==
    /\ failed = NoError
    /\ \E ev \in CallEvents :
          /\ ev.fresh
          /\ Len(ev.captured) = 3
          /\ Len(ev.args) = 4
          /\ Len(ev.stripped) = 2
          /\ ev.def \in Range(external_declarations)

\* the function an identifier written in the body at depth d of the chain
\* denotes ("" when none): a template parameter of that body stands for the
\* argument bound to it, written in the body one level out
RECURSIVE DenotedFunction(_, _, _, _)
DenotedFunction(chain, d, e, known) ==
    IF e.k # "var" THEN ""
    ELSE IF d >= 1 /\ BindsParameter(chain[d], e.id)
    THEN DenotedFunction(chain, d - 1, BoundArgument(chain[d], e.id).e, known)
    ELSE IF e.id \in known THEN e.id ELSE ""

\* C2: a call whose callee is a template parameter bound to a bare
\* identifier naming a known ordinary function f (directly, or through a
\* chain of template parameters of the enclosing templates) becomes a call
\* to f with the original arguments.
StaticBindingCallsFunction ==
    \A rw \in RewriteEvents :
        LET f == DenotedFunction(rw.chain, Len(rw.chain) - 1, rw.binding, last.known)
        IN f # "" => rw.out = Call(f, rw.args)

\* the same for the calls whose binding is not the name of a parameter of
\* the template that makes the call
StaticBindingCallsFunctionUnshadowed ==
    \A rw \in RewriteEvents :
        LET f == DenotedFunction(rw.chain, Len(rw.chain) - 1, rw.binding, last.known)
        IN (f # "" /\ ~BindsParameter(rw.chain[Len(rw.chain)], rw.binding.id))
              => rw.out = Call(f, rw.args)

NoTwoWithOneName(defs) ==
    \A i, j \in 1..Len(defs) :
        (i < j /\ defs[i].k = "fn" /\ defs[j].k = "fn") => defs[i].name # defs[j].name

\* C5: a specialization is instantiated at most once per mangled name: the
\* definitions an ingest hands to the unit, the pending buffer and the
\* output never hold two definitions of one name, also when a nested
\* instantiation took the pending definitions and they were registered again.
SpecializationDefinedOnce ==
    /\ NoTwoWithOneName(last.emitted)
    /\ NoTwoWithOneName(instanced_templates)
    /\ NoTwoWithOneName(external_declarations)
    /\ \A ev1, ev2 \in CallEvents :
          (ev1.fresh /\ ev2.fresh /\ ev1.mangled = ev2.mangled) => ev1 = ev2

\* one ingest created a specialization, reused it at a second call site, and
\* created another one whose nested instantiator took the pending buffer
SpecializationReusedAndBufferTaken ==
    /\ failed = NoError
    /\ \E i, j, k \in 1..Len(last.calls) :
          /\ i < j /\ j < k
          /\ last.calls[i].fresh
          /\ ~last.calls[j].fresh
          /\ last.calls[j].mangled = last.calls[i].mangled
          /\ last.calls[k].fresh
          /\ Len(last.emitted) >= 3

\* the definition of the output registered under a mangled name
Registered(name) ==
    CHOOSE d \in Range(external_declarations) : d.k = "fn" /\ d.name = name

\* C6: a call site that reuses a specialization appends exactly as many
\* captured arguments, of the same declared types in the same order, as the
\* specialization registered under that name has captured formals.
ReuseMatchesCapturedFormals ==
    failed = NoError =>
        \A ev \in CallEvents :
            ~ev.fresh =>
                LET formals == SubSeq(Registered(ev.mangled).params,
                                      Len(ev.stripped) + 1,
                                      Len(Registered(ev.mangled).params))
                IN /\ Len(ev.captured) = Len(formals)
                   /\ \A j \in 1..Len(formals) :
                         /\ formals[j].ty = ev.captured[j].ty
                         /\ formals[j].tyarr = ev.captured[j].tyarr
                         /\ formals[j].idarr = ev.captured[j].array

\* C7: the captured list of every local scope is sorted by symbol_id
\* ascending and holds no gen_id twice.
CapturedSortedAndDistinct ==
    \A ev \in CallEvents :
        /\ \A i, j \in 1..Len(ev.captured) :
              i < j => ev.captured[i].symbol_id <= ev.captured[j].symbol_id
        /\ \A i, j \in 1..Len(ev.captured) :
              i < j => ev.captured[i].gen_id # ev.captured[j].gen_id

\* a scope captured three symbols in an order (e, d, c) that is not the
\* order of their declaration (d, c, e)
CapturedOutOfOrder ==
    \E ev \in CallEvents :
        /\ Len(ev.captured) = 3
        /\ ev.captured[1].ident = "d"
        /\ ev.captured[2].ident = "c"
        /\ ev.captured[3].ident = "e"
        /\ ev.depth = 0

HasPointerTypedParameter(d, dpt) == \E i \in 1..Len(d.params) : d.params[i].ty \in DOMAIN dpt

\* C8: an ingest is classified by the registry as it is at that moment: a
\* bodyless prototype becomes a pointer type; a function definition with a
\* parameter whose type names an already declared pointer type becomes a
\* template; everything else is returned unchanged; a consumed prototype or
\* template definition never appears in the output.
IngestClassifiedByRegistry ==
    [][ LET d == last'.decl IN
        (failed' = NoError /\ ingested' = ingested + 1) =>
          /\ d.k = "proto" =>
                /\ last'.class = "ConsumedAsType"
                /\ d.name \in DOMAIN declared_pointer_types'
                /\ external_declarations' = external_declarations
          /\ (d.k = "fn" /\ HasPointerTypedParameter(d, declared_pointer_types)) =>
                /\ last'.class = "ConsumedAsTemplate"
                /\ d.name \in DOMAIN declared_templates'
                /\ external_declarations' = external_declarations
          /\ (d.k = "fn" /\ ~HasPointerTypedParameter(d, declared_pointer_types)) =>
                /\ last'.class = "Unparsed"
                /\ d.name \notin DOMAIN declared_templates'
                /\ last'.emitted # << >>
                /\ last'.emitted[Len(last'.emitted)].name = d.name
                /\ last'.emitted[Len(last'.emitted)].params = d.params
          /\ d.k = "other" =>
                /\ last'.class = "Unparsed"
                /\ last'.emitted = <<d>>
          /\ \A c \in consumed' : c \notin Range(external_declarations')
      ]_vars

\* a function whose parameter type was declared as a pointer type only after
\* it was ingested is in the output
OrdinaryBeforePointerType ==
    /\ D_h \in Range(external_declarations)
    /\ "F2" \in DOMAIN declared_pointer_types
    /\ failed = NoError

\* the identifiers called in an expression, in the statements of a body
RECURSIVE Callees(_)
RECURSIVE CalleesOfAll(_, _)
CalleesOfAll(es, i) ==
    IF i > Len(es) THEN {} ELSE Callees(es[i]) \cup CalleesOfAll(es, i + 1)

Callees(e) == (IF e.k = "call" THEN {e.id} ELSE {}) \cup CalleesOfAll(e.args, 1)

CalledBy(d) ==
    UNION {Callees(d.body[i].e) : i \in {j \in 1..Len(d.body) : d.body[j].k = "expr"}}

\* the definitions of the specializations a walk created, in the order in
\* which their instantiations completed (nested ones first)
RECURSIVE FreshDefinitions(_, _)
FreshDefinitions(calls, i) ==
    IF i > Len(calls) THEN << >>
    ELSE (IF calls[i].fresh THEN <<calls[i].def>> ELSE << >>) \o FreshDefinitions(calls, i + 1)

\* every specialization of the output is defined before each function that
\* calls it
SpecializationsPrecedeCallers ==
    \A i \in 1..Len(external_declarations) :
        \A name \in CalledBy(external_declarations[i]) \cap instantiated_templates :
            \E j \in 1..(i - 1) :
                /\ external_declarations[j].k = "fn"
                /\ external_declarations[j].name = name

\* C11: the straight unit appends to its output, in input order, each
\* passthrough declaration as it is and each ordinary function preceded
\* immediately by the specializations created while walking it, nested
\* specializations before the specialization that calls them; so every
\* specialization is defined before any function that calls it.
OutputInInputOrder ==
    /\ [][ (failed' = NoError /\ ingested' = ingested + 1) =>
             /\ external_declarations' = external_declarations \o last'.emitted
             /\ last'.class = "Unparsed" =>
                   /\ last'.emitted =
                         FreshDefinitions(last'.calls, 1)
                         \o <<last'.emitted[Len(last'.emitted)]>>
                   /\ last'.emitted[Len(last'.emitted)].name = last'.decl.name
                   /\ last'.decl.k = "other" => last'.emitted = <<last'.decl>>
             /\ last'.class \in {"ConsumedAsType", "ConsumedAsTemplate"} =>
                   last'.emitted = << >>
        ]_vars
    /\ []SpecializationsPrecedeCallers

\* one walk put a nested specialization, then the specialization that calls
\* it, then the walked function into an output that already held a function
NestedSpecializationBeforeCaller ==
    /\ failed = NoError
    /\ Len(last.emitted) = 3
    /\ Len(external_declarations) > 3
    /\ last.emitted[1].name \in CalledBy(last.emitted[2])
    /\ last.emitted[2].name \in CalledBy(last.emitted[3])
    /\ last.emitted[1].name \in instantiated_templates
    /\ last.emitted[2].name \in instantiated_templates

(***************************************************************************)
(* extract_template_parameters on its own: every call of up to             *)
(* MaxExtractArgs arguments against every set of template positions.       *)
(***************************************************************************)
MaxExtractArgs == 5

ProbeParameters(P) ==
    LET idx == SortedSeq(P)
    IN [j \in 1..Len(idx) |-> TemplateParameter("F1", "cb" \o ToString(idx[j]), idx[j])]

ProbeArgs(n) == [i \in 1..n |-> Var("a" \o ToString(i - 1))]

InitExtract ==
    /\ UnitInit({})
    /\ \E n \in 0..MaxExtractArgs : \E P \in SUBSET (0..(n - 1)) :
          probe = [op |-> "input", parameters |-> ProbeParameters(P), args |-> ProbeArgs(n)]

ExtractTemplate ==
    /\ probe.op = "input"
    /\ probe' = [op |-> "extract", parameters |-> probe.parameters, args |-> probe.args,
                 out |-> extract_template_parameters(probe.parameters, probe.args)]
    /\ UNCHANGED unit_vars

ExtractLib ==
    /\ probe.op = "input"
    /\ probe' = [op |-> "lib_extract", parameters |-> probe.parameters, args |-> probe.args,
                 out |-> lib_extract_template_parameters(probe.parameters, probe.args)]
    /\ UNCHANGED unit_vars

NextExtract == ExtractTemplate \/ ExtractLib

SpecExtract == InitExtract /\ [][NextExtract]_vars

ProbePositions == {probe.parameters[j].index + 1 : j \in 1..Len(probe.parameters)}

ExtractedExactly ==
    /\ probe.out.res = AtPositions(probe.args, ProbePositions, 1)
    /\ probe.out.args = AtPositions(probe.args, (1..Len(probe.args)) \ ProbePositions, 1)

\* C10: extract_template_parameters returns exactly the arguments at the
\* template positions, in increasing position, and leaves the other
\* arguments in the call in their original order, in both definitions of it
\* (the crate root's and the template module's), adjacent positions included.
ExtractReturnsTemplateArgs ==
    probe.op \in {"extract", "lib_extract"} => ExtractedExactly

\* the template module's definition alone meets C10's statement
ExtractTemplateModuleExact ==
    probe.op = "extract" => ExtractedExactly

\* a call whose two first positions are both template positions was extracted
ExtractAdjacentDone ==
    /\ probe.op = "extract"
    /\ {1, 2} \subseteq ProbePositions
    /\ Len(probe.args) >= 3

(***************************************************************************)
(* parse_definition_as_template on its own: every parameter list of up to  *)
(* MaxParams parameters drawn from ParamMenu, with F1 and F2 declared.     *)
(***************************************************************************)
ParamMenu ==
    { Param("int", "a"), Param("F1", "cb"), Param("F2", ""),
      ParamArr("F1", "arr", TRUE, FALSE), ParamArr("float", "v", FALSE, TRUE),
      ParamArr("F1", "cbs", FALSE, TRUE),
      Param("G", "g") }

ProbePointerTypes ==
    [n \in {"F1", "F2"} |->
        IF n = "F1" THEN Proto("F1", <<Param("int", "x")>>)
        ELSE Proto("F2", <<Param("int", "x"), Param("int", "y")>>)]

ParamLists == UNION {[1..n -> ParamMenu] : n \in 0..MaxParams}

InitParse ==
    /\ UnitInit({})
    /\ \E ps \in ParamLists :
          probe = [op |-> "input", def |-> Fn("t", ps, << >>), dpt |-> ProbePointerTypes]

ParseDefinition ==
    /\ probe.op = "input"
    /\ probe' = [op |-> "parse", def |-> probe.def, dpt |-> probe.dpt,
                 out |-> parse_definition_as_template(probe.def, probe.dpt)]
    /\ UNCHANGED unit_vars

NextParse == ParseDefinition

SpecParse == InitParse /\ [][NextParse]_vars

PointerTypedPositions ==
    {i \in 1..Len(probe.def.params) : probe.def.params[i].ty \in DOMAIN probe.dpt}

\* C9: a template definition has one template parameter per pointer-typed
\* position of the original parameter list; the stripped parameters and the
\* template parameters add up to the original ones; the index of the j-th
\* template parameter is the original position of the j-th pointer-typed
\* parameter; the other parameters keep their relative order.
TemplateParametersKeepPositions ==
    (probe.op = "parse" /\ probe.out.kind = "Template") =>
        LET tp == probe.out.parameters
            st == probe.out.ast.params
            orig == probe.def.params
        IN /\ Len(tp) = Cardinality(PointerTypedPositions)
           /\ Len(st) + Len(tp) = Len(orig)
           /\ \A j \in 1..Len(tp) :
                 /\ tp[j].index + 1 \in PointerTypedPositions
                 /\ Cardinality({i \in PointerTypedPositions : i < tp[j].index + 1}) = j - 1
           /\ st = AtPositions(orig, (1..Len(orig)) \ PointerTypedPositions, 1)

\* a template with pointer-typed parameters around an ordinary one was parsed
TemplateParsedAround ==
    /\ probe.op = "parse"
    /\ probe.out.kind = "Template"
    /\ Len(probe.out.parameters) = 2
    /\ probe.out.parameters[1].index = 0
    /\ probe.out.parameters[2].index = 2
    /\ Len(probe.out.ast.params) = 1

\* the pointer-typed positions that carry an array specifier, on the type or
\* on the identifier
ArrayedPointerTypedPositions ==
    {i \in PointerTypedPositions :
        probe.def.params[i].tyarr \/ probe.def.params[i].idarr}

\* C17: parsing a function definition fails with ArrayedTemplateParameter,
\* carrying the function's name and the 0-based original position of the
\* parameter, whenever a parameter typed by a declared pointer type carries
\* an array specifier, on its type or on its identifier; such a function is
\* never a template.
ArrayedTemplateParameterRefused ==
    (probe.op = "parse" /\ ArrayedPointerTypedPositions # {}) =>
        /\ probe.out.kind = "Error"
        /\ probe.out.err.kind = "ArrayedTemplateParameter"
        /\ probe.out.err.name = probe.def.name
        /\ probe.out.err.index + 1 \in ArrayedPointerTypedPositions

\* the same for an array specifier attached to the type: the error names the
\* first such position
ArrayedTypeRefused ==
    (probe.op = "parse"
        /\ \E i \in PointerTypedPositions : probe.def.params[i].tyarr) =>
        /\ probe.out.kind = "Error"
        /\ probe.out.err =
              ArrayedTemplateParameter(
                 probe.def.name,
                 (CHOOSE i \in PointerTypedPositions :
                     /\ probe.def.params[i].tyarr
                     /\ \A j \in PointerTypedPositions :
                           probe.def.params[j].tyarr => i <= j) - 1)

(***************************************************************************)
(* lambda_instantiate on its own: every lambda body of LambdaBodies, called *)
(* with up to MaxArgs arguments of LambdaArgs (some of which are           *)
(* placeholders themselves), against every prototype of LambdaPrototypes.  *)
(***************************************************************************)
LambdaBodies ==
    { Var("_1"), Lit("7"), Var("_3"),
      Bin("*", Var("_1"), Var("c")),
      Bin("+", Var("_x"), Var("_2")),
      Bin("+", Var("_y"), Bin("*", Var("_1"), Var("_1"))),
      Call("g", <<Var("_2"), Lit("1")>>) }

LambdaArgs == { Lit("1"), Var("_2"), Bin("+", Var("u"), Var("_1")) }

LambdaPrototypes ==
    { Proto("F0", << >>),
      Proto("F1", <<Param("int", "x")>>),
      Proto("F2", <<Param("int", "x"), Param("int", "y")>>),
      Proto("F3", <<Param("int", ""), Param("int", "y"), Param("int", "z")>>) }

InitLambda ==
    /\ UnitInit({})
    /\ \E body \in LambdaBodies : \E n \in 0..MaxArgs : \E as \in [1..n -> LambdaArgs] :
       \E pt \in LambdaPrototypes :
          probe = [op |-> "input", tgt |-> body, source_parameters |-> as, prototype |-> pt]

LambdaInstantiate ==
    /\ probe.op = "input"
    /\ probe' = [op |-> "lambda", tgt |-> probe.tgt,
                 source_parameters |-> probe.source_parameters,
                 prototype |-> probe.prototype,
                 out |-> lambda_instantiate(probe.tgt, probe.source_parameters, probe.prototype)]
    /\ UNCHANGED unit_vars

NextLambda == LambdaInstantiate

SpecLambda == InitLambda /\ [][NextLambda]_vars

\* the variables and literals of e, left to right
RECURSIVE Leaves(_)
RECURSIVE LeavesOfAll(_, _)
LeavesOfAll(es, i) ==
    IF i > Len(es) THEN << >> ELSE Leaves(es[i]) \o LeavesOfAll(es, i + 1)

Leaves(e) == IF e.k \in {"var", "lit"} THEN <<e>> ELSE LeavesOfAll(e.args, 1)

\* the arguments a placeholder stands for: _k, or _p for the k-th parameter p
PlaceholderOf(id, as, pt) ==
    {k \in 1..Len(as) :
        \/ id = Placeholder(ToString(k))
        \/ k <= Len(pt.params) /\ pt.params[k].name # "" /\ id = Placeholder(pt.params[k].name)}

RECURSIVE SubstitutedLeaves(_, _, _, _)
SubstitutedLeaves(ls, i, as, pt) ==
    IF i > Len(ls) THEN << >>
    ELSE LET K == IF ls[i].k = "var" THEN PlaceholderOf(ls[i].id, as, pt) ELSE {}
         IN (IF K = {} THEN <<ls[i]>> ELSE Leaves(as[CHOOSE k \in K : TRUE]))
            \o SubstitutedLeaves(ls, i + 1, as, pt)

LambdaBodySubstituted ==
    /\ ~probe.out.panic
    /\ Leaves(probe.out.e) =
          SubstitutedLeaves(Leaves(probe.tgt), 1, probe.source_parameters, probe.prototype)

\* C3: the call cb(a_1, ..., a_n) of a template parameter bound to a lambda
\* is replaced by the lambda body with every _k and every _p (p the k-th
\* parameter of the pointer type) replaced by a_k, in one simultaneous pass
\* that does not substitute inside the arguments, for every n.
LambdaCallReplacedByBody ==
    probe.op = "lambda" => LambdaBodySubstituted

\* the substitution is the one C3 states whenever the call passes no more
\* arguments than the pointer type declares
LambdaCallReplacedWithinPrototype ==
    (probe.op = "lambda" /\ Len(probe.source_parameters) <= Len(probe.prototype.params))
        => LambdaBodySubstituted

(***************************************************************************)
(* generate_id on its own: two call sites of one template with up to       *)
(* MaxSlots template arguments drawn from MangleExprs.                     *)
(***************************************************************************)
MaxSlots == 2

MangleExprs ==
    { Lit("1"), Lit("12"), Lit("23"), Lit("3"), Var("fnReturnsOne") }

MangleTemplate(n) ==
    [ast |-> Fn("fnTemplate", << >>, << >>),
     parameters |-> [j \in 1..n |-> TemplateParameter("intfn", "cb" \o ToString(j), j - 1)]]

InitMangle ==
    /\ UnitInit({})
    /\ \E n \in 1..MaxSlots : \E a \in [1..n -> MangleExprs] : \E b \in [1..n -> MangleExprs] :
          probe = [op |-> "input", template |-> MangleTemplate(n), site1 |-> a, site2 |-> b]

GenerateIds ==
    /\ probe.op = "input"
    /\ probe' = [op |-> "mangle", template |-> probe.template,
                 site1 |-> probe.site1, site2 |-> probe.site2,
                 name1 |-> generate_id(probe.template, probe.site1),
                 name2 |-> generate_id(probe.template, probe.site2)]
    /\ UNCHANGED unit_vars

NextMangle == GenerateIds

SpecMangle == InitMangle /\ [][NextMangle]_vars

\* the sequence of (pointer-type name, pretty-printed expression) of a site
MangleKey(template, args) ==
    [i \in 1..Len(args) |-> <<template.parameters[i].typename, show_expr(args[i])>>]

\* C4: the mangled names of two call sites of one template are equal if and
\* only if their sequences of (pointer-type name, printed expression) are.
MangledNamesEqualIffArgsEqual ==
    probe.op = "mangle" =>
        ((probe.name1 = probe.name2) <=>
            (MangleKey(probe.template, probe.site1) = MangleKey(probe.template, probe.site2)))

\* the direction of C4 that the concatenated buffer does give
MangledNamesEqualIfArgsEqual ==
    probe.op = "mangle" =>
        ((MangleKey(probe.template, probe.site1) = MangleKey(probe.template, probe.site2))
            => probe.name1 = probe.name2)

(***************************************************************************)
(* The generated identifiers on their own: the mangled name of a           *)
(* specialization and the gen_id of a declared symbol, under a transform   *)
(* config whose prefix is the default one or one given with --prefix.      *)
(***************************************************************************)
MaxCurrentId == 2

\* TransformConfigBuilder::default().prefix(prefix).build()
TransformConfig(prefix) == [prefix |-> prefix]

DefaultTransformConfig == TransformConfig("_glslt_")

Prefixes == {DefaultTransformConfig.prefix, "p_", "my"}

InitPrefix ==
    /\ UnitInit({})
    /\ \E prefix \in Prefixes : \E n \in 1..MaxSlots : \E a \in [1..n -> MangleExprs] :
       \E id \in 0..MaxCurrentId :
          probe = [op |-> "input", config |-> TransformConfig(prefix),
                   template |-> MangleTemplate(n), args |-> a, current_id |-> id]

\* the name LocalScope::new gives to the specialization of a call and the
\* gen_id add_declared_symbol gives to a symbol, in a transform run with
\* probe.config
GenerateNames ==
    /\ probe.op = "input"
    /\ probe' = [op |-> "names", config |-> probe.config,
                 template |-> probe.template, args |-> probe.args,
                 current_id |-> probe.current_id,
                 name |-> generate_id(probe.template, probe.args),
                 gen_id |-> new_gen_id(probe.current_id)]
    /\ UNCHANGED unit_vars

NextPrefix == GenerateNames

SpecPrefix == InitPrefix /\ [][NextPrefix]_vars

\* what follows the prefix in a mangled name, <T.name>_<6 hex digits>, and
\* in a gen_id, lp<N>
MangledSuffixes ==
    {"fnTemplate_" \o expr_vec_to_id(a) :
        a \in UNION {[1..n -> MangleExprs] : n \in 1..MaxSlots}}

GenIdSuffixes == {"lp" \o ToString(n) : n \in 0..MaxCurrentId}

\* C20: the mangled name of a specialization and the gen_id of a symbol
\* start with the prefix of the transform config in use.
GeneratedNamesStartWithPrefix ==
    probe.op = "names" =>
        /\ \E rest \in MangledSuffixes : probe.name = probe.config.prefix \o rest
        /\ \E rest \in GenIdSuffixes : probe.gen_id = probe.config.prefix \o rest

\* under the default config the generated names do start with its prefix
GeneratedNamesStartWithDefaultPrefix ==
    (probe.op = "names" /\ probe.config = DefaultTransformConfig) =>
        /\ \E rest \in MangledSuffixes : probe.name = probe.config.prefix \o rest
        /\ \E rest \in GenIdSuffixes : probe.gen_id = probe.config.prefix \o rest

(***************************************************************************)
(* The minifying unit on its own sources: any declarations of a source, in *)
(* any order, then into_translation_unit for a list of up to MaxWanted     *)
(* wanted names.                                                           *)
(***************************************************************************)
MaxWanted == 2

\* #version 450    #extension GL_x : enable    precision mediump float;
\* uniform Block { ... };    #pragma once
D_version == Directive("version", "450")
D_extension == Directive("extension", "GL_x")
D_precision == StaticDeclaration("precision", "float")
D_block == StaticDeclaration("block", "Block")
D_pragma == Directive("pp", "pragma")

\* struct T { float x; };    struct S { T t; };    void useS(S s) { s; }
D_T == StructDeclaration("T", <<Param("float", "x")>>, "")
D_S == StructDeclaration("S", <<Param("T", "t")>>, "")
D_useS == Fn("useS", <<Param("S", "s")>>, <<Stmt(Var("s"))>>)

\* #define A B    #define B A    #define N    #define M(x) x + N
\* void fa() { M(A); N; }
D_defA == Define("A", << >>, <<"B">>)
D_defB == Define("B", << >>, <<"A">>)
D_defN == Define("N", << >>, << >>)
D_defM == DefineFunctionLike("M", <<"x">>, <<"x", "N">>)
D_fa == Fn("fa", << >>, <<Stmt(Call("M", <<Var("A")>>)), Stmt(Var("N"))>>)
\* void fm() { M(2); }    int f(float y) { y; }
D_fm == Fn("fm", << >>, <<Stmt(Call("M", <<Lit("2")>>))>>)
D_f_again == Fn("f", <<Param("float", "y")>>, <<Stmt(Var("y"))>>)

\* struct { float x; } s;    float;    invariant p, q;    S u;
\* void useU() { u; p; }
D_anon == StructDeclaration("", <<Param("float", "x")>>, "s")
D_noname == VariableDeclaration("float", "")
D_glob == GlobalDeclaration(<<"p", "q">>)
D_var == VariableDeclaration("S", "u")
D_useU == Fn("useU", << >>, <<Stmt(Var("u")), Stmt(Var("p"))>>)
\* struct { float x; };
D_anon0 == StructDeclaration("", <<Param("float", "x")>>, "")

\* #define X X    void r() { r(); }
D_defSelf == Define("X", << >>, <<"X">>)
D_r == Fn("r", << >>, <<Stmt(Call("r", << >>))>>)

MinSources ==
    { {D_version, D_precision, D_T, D_S, D_useS},
      {D_defA, D_defB, D_defN, D_defM, D_fa},
      {D_F1, D_f, D_g, D_apply, D_mainS},
      {D_version, D_extension, D_block, D_pragma, D_anon},
      {D_noname, D_glob, D_var, D_useU, D_S},
      {D_defSelf, D_r, D_version, D_F1, D_F1_again},
      {D_anon0, D_T, D_S, D_useS, D_pragma},
      {D_defN, D_defM, D_fm, D_f, D_f_again} }

WantedNames == {"mainS", "useS", "fa", "useU", "absent", "fm"}

WantedLists == UNION {[1..n -> WantedNames] : n \in 0..MaxWanted}

InitMin ==
    /\ \E src \in MinSources : UnitInit(src)
    /\ probe = [op |-> "none"]

\* transform_min after the declarations ingested so far
MinIntoTranslationUnit ==
    /\ failed = NoError
    /\ translation_unit = NoTranslationUnit
    /\ \E wanted \in WantedLists : translation_unit' = min_into_translation_unit(wanted)
    /\ UNCHANGED <<declared_pointer_types, declared_templates, known_functions,
                   instantiated_templates, instanced_templates, external_declarations,
                   source, ingested, consumed, last, failed, probe,
                   dag, static_declarations, queue, first_output>>

NextMin ==
    \/ IngestPrototype
    \/ MinIngestFunctionDefinition
    \/ MinIngestPreprocessor
    \/ MinIngestDeclaration
    \/ MinIntoTranslationUnit

SpecMin == InitMin /\ [][NextMin]_vars

Produced == translation_unit # NoTranslationUnit

\* the output after the static declarations
NonStaticOutput ==
    SubSeq(translation_unit.declarations, Len(static_declarations) + 1,
           Len(translation_unit.declarations))

\* the nodes the edges lead to from the nodes of S, in any number of steps
RECURSIVE Reach(_, _)
Reach(edges, S) ==
    With(S \cup {edges[i][2] : i \in {j \in 1..Len(edges) : edges[j][1] \in S}},
         LAMBDA N : IF N = S THEN S ELSE Reach(edges, N))

WantedKeys ==
    {FunctionDefinitionKey(translation_unit.wanted[i]) : i \in 1..Len(translation_unit.wanted)}

\* the keys the graph reaches from the wanted roots, the roots included
ReachedKeys ==
    WantedKeys
    \cup {dag.symbol_map[n] :
            n \in Reach(dag.edges, {IndexOfSymbol(dag, k) : k \in WantedKeys} \ {0})}

StoredKeys == {external_declarations[i].key : i \in 1..Len(external_declarations)}

\* C12: the non-static part of the minifying unit's output is exactly the
\* stored declarations whose keys the dependency graph reaches from the
\* wanted roots, each once; an unreached stored declaration is not emitted
\* and a reached key without a stored declaration is skipped without error.
MinOutputIsReachedStored ==
    Produced =>
        /\ translation_unit.kind = "Ok"
        /\ Range(NonStaticOutput) =
              {IndexMapGet(external_declarations, k) : k \in ReachedKeys \cap StoredKeys}
        /\ Len(NonStaticOutput) = Cardinality(ReachedKeys \cap StoredKeys)

\* an output of at least three reached declarations, produced while a stored
\* declaration was not reached, a reached key had no stored declaration and a
\* wanted root was undeclared
MinOutputLeavesUnreached ==
    /\ Produced
    /\ Len(NonStaticOutput) >= 3
    /\ StoredKeys \ ReachedKeys # {}
    /\ \E k \in ReachedKeys \ (StoredKeys \cup WantedKeys) : TRUE
    /\ WantedKeys \ StoredKeys # {}

\* the keys of the emitted declarations, in output order
EmittedKeys ==
    [i \in 1..Len(NonStaticOutput) |->
        external_declarations[
            CHOOSE j \in 1..Len(external_declarations) :
                external_declarations[j].val = NonStaticOutput[i]].key]

\* the graph has an edge from the node of k1 to the node of k2
HasEdge(k1, k2) ==
    /\ IndexOfSymbol(dag, k1) # 0
    /\ IndexOfSymbol(dag, k2) # 0
    /\ <<IndexOfSymbol(dag, k1), IndexOfSymbol(dag, k2)>> \in Range(dag.edges)

\* k1 is reached from k2
DependsOn(k2, k1) ==
    /\ IndexOfSymbol(dag, k1) # 0
    /\ IndexOfSymbol(dag, k2) # 0
    /\ IndexOfSymbol(dag, k1) \in
          Reach(dag.edges, {dag.edges[i][2] :
                               i \in {j \in 1..Len(dag.edges) :
                                         dag.edges[j][1] = IndexOfSymbol(dag, k2)}})

\* C13: in the minifying unit's output every emitted declaration is preceded
\* by every emitted declaration onto which it has a dependency edge.
DependenciesPrecedeUsers ==
    Produced =>
        \A i, j \in 1..Len(NonStaticOutput) :
            HasEdge(EmittedKeys[i], EmittedKeys[j]) => j < i

\* C13, amended: every emitted declaration is preceded by every emitted
\* declaration onto which it has a dependency edge and which does not depend
\* on it in turn.
DependenciesPrecedeUsersOffCycles ==
    Produced =>
        \A i, j \in 1..Len(NonStaticOutput) :
            (HasEdge(EmittedKeys[i], EmittedKeys[j])
                /\ ~DependsOn(EmittedKeys[j], EmittedKeys[i])) => j < i

\* an output of a chain of three declarations, each with an edge onto the one
\* before it, the first of them stored last
DependencyChainEmitted ==
    /\ Produced
    /\ Len(NonStaticOutput) >= 3
    /\ HasEdge(EmittedKeys[3], EmittedKeys[2])
    /\ HasEdge(EmittedKeys[2], EmittedKeys[1])
    /\ external_declarations[Len(external_declarations)].key = EmittedKeys[1]

StaticKinds == {"version", "extension", "precision", "block"}

\* C14: version and extension directives, precision declarations and blocks
\* are kept in ingestion order, and every output starts with all of them, in
\* that order and before every other declaration, whatever the wanted roots.
StaticDeclarationsFirst ==
    /\ [][ static_declarations' =
             IF ingested' = ingested + 1 /\ failed' = NoError
                /\ last'.decl.k \in StaticKinds
             THEN Append(static_declarations, last'.decl)
             ELSE static_declarations ]_vars
    /\ [](Produced =>
            /\ SubSeq(translation_unit.declarations, 1, Len(static_declarations))
                  = static_declarations
            /\ \A i \in 1..Len(NonStaticOutput) : NonStaticOutput[i].k \notin StaticKinds)

\* three static declarations were emitted in the order block, version,
\* extension although no root was wanted, and before a reached function
StaticEmittedUnreferenced ==
    /\ Produced
    /\ \/ /\ translation_unit.wanted = << >>
          /\ translation_unit.declarations = <<D_block, D_version, D_extension>>
       \/ /\ translation_unit.declarations = <<D_precision, D_version, D_useS>>

HeadName(d) == IF d.k = "struct" THEN d.variable ELSE d.name

\* C19: in minifying mode a directive other than version, extension or
\* define fails with UnsupportedPreprocessor and an init declarator list
\* with neither a named struct as head type nor a head variable name fails
\* with UnsupportedIDL; the stored declarations, the static declarations and
\* the dependency graph are as before the call.
UnsupportedLeavesUnitUnchanged ==
    [][ ingested' = ingested + 1 =>
          LET d == last'.decl IN
          /\ d.k = "pp" =>
                /\ failed' = UnsupportedPreprocessor(d)
                /\ UNCHANGED <<external_declarations, static_declarations, dag>>
          /\ (d.k \in {"struct", "variable"} /\ ~(d.k = "struct" /\ d.name # "")
                 /\ HeadName(d) = "") =>
                /\ failed'.kind = "UnsupportedIDL"
                /\ failed'.decl = d
                /\ UNCHANGED <<external_declarations, static_declarations, dag>>
      ]_vars

\* an init declarator list without a name was refused by a unit that held
\* stored declarations and dependencies
UnsupportedRefusedByFilledUnit ==
    /\ failed.kind = "UnsupportedIDL"
    /\ HeadName(last.decl) = ""
    /\ Len(external_declarations) >= 2
    /\ dag.edges # << >>

\* C16: ingesting a bodyless prototype whose name is already a declared
\* pointer type fails with DuplicatePointerDefinition carrying the name and
\* the printed text of the earlier prototype; the registry is as before, the
\* earlier prototype stays bound to the name, and no ingest ever rebinds a
\* pointer-type name.
DuplicatePointerRefused ==
    [][ ingested' = ingested + 1 =>
          LET d == last'.decl IN
          /\ (d.k = "proto" /\ d.name \in DOMAIN declared_pointer_types) =>
                /\ failed'.kind = "DuplicatePointerDefinition"
                /\ failed'.name = d.name
                /\ failed'.previous_declaration =
                      declared_pointer_types[d.name].name \o "("
                      \o show_parameters(declared_pointer_types[d.name].params, 1) \o ")"
                /\ UNCHANGED <<declared_pointer_types, declared_templates,
                               known_functions, external_declarations>>
          /\ \A n \in DOMAIN declared_pointer_types :
                /\ n \in DOMAIN declared_pointer_types'
                /\ declared_pointer_types'[n] = declared_pointer_types[n]
                /\ declared_pointer_types[n].name = n
      ]_vars

\* the second prototype named F1 was refused after other ingests: the error
\* carries the text of the first, which is still the one bound to F1
SecondPrototypeRefused ==
    /\ failed.kind = "DuplicatePointerDefinition"
    /\ last.decl = D_F1_again
    /\ failed.name = "F1"
    /\ failed.previous_declaration = "F1(int x)"
    /\ declared_pointer_types["F1"] = D_F1
    /\ ingested >= 3

\* the errors an ingest returns are raised ahead of the walk of a function
\* (by the registry), or by into_translation_unit: the only error the walk
\* itself records, UndeclaredPointerType, needs a template parameter whose
\* pointer type is not declared, and the registry never holds one
WalkRecordsNoError ==
    /\ failed.kind \in {"None", "DuplicatePointerDefinition", "ArrayedTemplateParameter",
                        "EmptyInput", "Panic", "Diverged",
                        "UnsupportedPreprocessor", "UnsupportedIDL"}
    /\ \A n \in DOMAIN declared_templates :
          \A j \in 1..Len(declared_templates[n].parameters) :
             declared_templates[n].parameters[j].typename \in DOMAIN declared_pointer_types

\* the first transform has returned and its output is being or has been
\* transformed again
TransformingAgain == first_output # NoTranslationUnit

\* the second transform registers nothing, specializes nothing and copies
\* the declarations it has read so far
SecondTransformCopies ==
    TransformingAgain =>
        /\ failed = NoError
        /\ declared_pointer_types = EmptyMap
        /\ declared_templates = EmptyMap
        /\ instantiated_templates = {}
        /\ external_declarations = SubSeq(first_output.declarations, 1, ingested)
        /\ Produced => translation_unit.declarations = first_output.declarations

\* the output of a transform holds no declaration that the registry, as it
\* is when the output is produced, classifies as a pointer-type prototype or
\* as a template definition
OutputHoldsNoTemplateDeclaration ==
    (Produced /\ ~TransformingAgain) =>
        \A i \in 1..Len(translation_unit.declarations) :
            LET d == translation_unit.declarations[i] IN
            /\ d.k # "proto"
            /\ d.k = "fn" => d.name \notin DOMAIN declared_templates

\* the output of a transform holds no call to a declared template
OutputHoldsNoTemplateCall ==
    (Produced /\ ~TransformingAgain) =>
        \A i \in 1..Len(translation_unit.declarations) :
            CalledBy(translation_unit.declarations[i]) \cap DOMAIN declared_templates = {}

\* the definitions pushed by an ingest hold no call to a template that was
\* declared when the ingest began
EmittedCallsNoDeclaredTemplate ==
    (ingested' = ingested + 1 /\ failed' = NoError) =>
        \A i \in 1..Len(last'.emitted) :
            CalledBy(last'.emitted[i]) \cap DOMAIN declared_templates = {}

InstantiationTerminates ==
    failed # Diverged

\* every walk that was cut for its depth had met a mangled name that was
\* still being instantiated: the recursion it stands for has no end
DivergedOnlyOnCycle ==
    failed = Diverged => last.cycle

\* the edges the step has added, as pairs of symbols
AddedEdges ==
    {<<dag'.symbol_map[dag'.edges[i][1]], dag'.symbol_map[dag'.edges[i][2]]>> :
        i \in (Len(dag.edges) + 1)..Len(dag'.edges)}

\* the key under which a define is stored
DefineKey(d) == IF d.fnlike THEN FunctionDefinitionKey(d.name) ELSE DeclarationKey(d.name)

\* the identifiers of a define's value that are not its own argument names
FreeIdentifiers(d) == Range(d.body) \ Range(d.params)

DefineIngested ==
    /\ ingested' = ingested + 1
    /\ failed' = NoError
    /\ last'.decl.k = "define"

\* C22: the edges added for a define go from the key under which it is
\* stored onto Declaration(id) for each identifier of its value, its own
\* argument names excluded for a function-like define; an output that holds
\* the define holds, earlier, every stored declaration its value names.
DefineDependsOnItsValue ==
    /\ [][ DefineIngested =>
             AddedEdges = {<<DefineKey(last'.decl), DeclarationKey(id)>> :
                              id \in FreeIdentifiers(last'.decl)} ]_vars
    /\ [](Produced =>
            \A i \in 1..Len(NonStaticOutput) :
               NonStaticOutput[i].k = "define" =>
                  \A id \in FreeIdentifiers(NonStaticOutput[i]) :
                     DeclarationKey(id) \in StoredKeys =>
                        \E j \in 1..(i - 1) :
                           NonStaticOutput[j] =
                              IndexMapGet(external_declarations, DeclarationKey(id)))

\* for an object-like define the added edges are the stated ones
ObjectLikeDefineDependsOnItsValue ==
    [][ (DefineIngested /\ ~last'.decl.fnlike) =>
          AddedEdges = {<<DefineKey(last'.decl), DeclarationKey(id)>> :
                           id \in FreeIdentifiers(last'.decl)} ]_vars

\* C23: no sequence of ingested functions, structs and defines makes the
\* unit add an edge from a key onto itself: the assertion of add_dep holds
\* on every call and the graph has no self-loop.
AddDepNeverSelfReferences ==
    /\ failed # SelfReference
    /\ \A i \in 1..Len(dag.edges) : dag.edges[i][1] # dag.edges[i][2]

\* the graph itself never holds a self-loop: the assertion stops the unit
\* before the edge is added
GraphHoldsNoSelfLoop ==
    \A i \in 1..Len(dag.edges) : dag.edges[i][1] # dag.edges[i][2]

\* C28: whenever a stored variable whose declared type is a stored named
\* struct is emitted, the declaration of that struct is emitted before it.
VariableTypeEmittedFirst ==
    Produced =>
        \A i \in 1..Len(NonStaticOutput) :
           LET d == NonStaticOutput[i] IN
           (/\ d.k = "variable"
            /\ IndexMapHas(external_declarations, DeclarationKey(d.params[1].ty))
            /\ IndexMapGet(external_declarations, DeclarationKey(d.params[1].ty)).k = "struct") =>
              \E j \in 1..(i - 1) :
                 NonStaticOutput[j] =
                    IndexMapGet(external_declarations, DeclarationKey(d.params[1].ty))

\* C30: ingesting an ordinary function in the minifying unit never reaches
\* unreachable!() and returns a handle to the function just ingested: the
\* last entry of the declaration map is that function.
HandleIsFunctionJustIngested ==
    [][ (ingested' = ingested + 1 /\ last'.decl.k = "fn"
            /\ failed'.kind \in {"None", "Panic"}
            /\ ~HasPointerTypedParameter(last'.decl, declared_pointer_types)) =>
          /\ failed' # Unreachable
          /\ failed' = NoError =>
                /\ last'.handle = last'.emitted[Len(last'.emitted)]
                /\ external_declarations'[Len(external_declarations')].val = last'.handle
      ]_vars

\* when no function of the same name was stored before, the handle is the
\* function just ingested
HandleOfNewNameIsFunctionJustIngested ==
    [][ (ingested' = ingested + 1 /\ last'.decl.k = "fn"
            /\ ~HasPointerTypedParameter(last'.decl, declared_pointer_types)
            /\ ~IndexMapHas(external_declarations, FunctionDefinitionKey(last'.decl.name))) =>
          /\ failed' # Unreachable
          /\ failed' = NoError => last'.handle = last'.emitted[Len(last'.emitted)]
      ]_vars

\* C29: lambda_instantiate completes without panicking for any number of
\* call arguments, also when the call passes more arguments than the pointer
\* type's prototype declares parameters.
LambdaInstantiateNeverPanics ==
    probe.op = "lambda" => ~probe.out.panic

\* within the prototype's parameter count no index is out of bounds
LambdaInstantiateCompletesWithinPrototype ==
    (probe.op = "lambda" /\ Len(probe.source_parameters) <= Len(probe.prototype.params))
        => ~probe.out.panic

(***************************************************************************)
(* ExtractIdents on its own: next() called repeatedly, from the iterator   *)
(* over the whole input in its Init state, on every string of at most     *)
(* MaxInputLen characters of IdentChars, until it returns None or          *)
(* MaxCalls calls were made.  A string is the sequence of its characters,  *)
(* positions are the 0-based offsets of the code.                          *)
(***************************************************************************)
MaxInputLen == 4

MaxCalls == 5

IdentChars == {"a", "z", "Z", "9", "1", "_", " "}

CharCode(ch) ==
    CASE ch = "a" -> 97
      [] ch = "z" -> 122
      [] ch = "A" -> 65
      [] ch = "Z" -> 90
      [] ch = "0" -> 48
      [] ch = "9" -> 57
      [] ch = "1" -> 49
      [] ch = "_" -> 95
      [] ch = " " -> 32

\* (lo..hi).contains(&ch): a half-open range, hi is not a member
RangeContains(lo, hi, ch) == CharCode(lo) <= CharCode(ch) /\ CharCode(ch) < CharCode(hi)

ExtractIdentStart(ch) ==
    ch = "_" \/ RangeContains("a", "z", ch) \/ RangeContains("A", "Z", ch)

ExtractIdentFollow(ch) ==
    \/ ch = "_"
    \/ RangeContains("a", "z", ch)
    \/ RangeContains("A", "Z", ch)
    \/ RangeContains("0", "9", ch)

ExtractIdentInit == [k |-> "Init"]

ExtractIdentIdent(start_position) == [k |-> "Ident", start_position |-> start_position]

ExtractIdents(input) ==
    [input |-> input, current_position |-> 0, state |-> ExtractIdentInit]

NoItem == [some |-> FALSE]

SomeItem(str) == [some |-> TRUE, str |-> str]

\* the loop of next(): i runs over the offsets of remaining, the slice of
\* the input from offset from on; current_position and start_position take
\* the value of i, last_index starts as the old current_position
RECURSIVE ExtractIdentsLoop(_, _, _, _, _, _)
ExtractIdentsLoop(input, from, i, last_index, state, current_position) ==
    IF from + i >= Len(input)
    THEN [it |-> [input |-> input, current_position |-> current_position, state |-> state],
          item |-> NoItem]
    ELSE LET ch == input[from + i + 1]
         IN IF state.k = "Init"
            THEN ExtractIdentsLoop(input, from, i + 1, i,
                    IF ExtractIdentStart(ch) THEN ExtractIdentIdent(i) ELSE state, i)
            ELSE IF ExtractIdentFollow(ch)
                 THEN ExtractIdentsLoop(input, from, i + 1, i, state, i)
                 ELSE [it |-> [input |-> input, current_position |-> i,
                               state |-> ExtractIdentInit],
                       item |-> IF state.start_position > last_index + 1
                                   \/ last_index >= Len(input)
                                THEN [some |-> TRUE, panic |-> TRUE]
                                ELSE SomeItem(SubSeq(input, state.start_position + 1,
                                                     last_index + 1))]

ExtractIdentsNext(it) ==
    ExtractIdentsLoop(it.input, it.current_position, 0, it.current_position,
                      it.state, it.current_position)

InitIdents ==
    /\ UnitInit({})
    /\ \E n \in 0..MaxInputLen : \E input \in [1..n -> IdentChars] :
          probe = [op |-> "idents", it |-> ExtractIdents(input),
                   yielded |-> << >>, done |-> FALSE, panic |-> FALSE]

IdentsNext ==
    /\ probe.op = "idents"
    /\ ~probe.done
    /\ ~probe.panic
    /\ Len(probe.yielded) < MaxCalls
    /\ \E r \in {ExtractIdentsNext(probe.it)} :
          probe' = IF ~r.item.some
                   THEN [probe EXCEPT !.it = r.it, !.done = TRUE]
                   ELSE IF "panic" \in DOMAIN r.item
                   THEN [probe EXCEPT !.it = r.it, !.panic = TRUE]
                   ELSE [probe EXCEPT !.it = r.it, !.yielded = Append(@, r.item.str)]
    /\ UNCHANGED unit_vars

NextIdents == IdentsNext

SpecIdents == InitIdents /\ [][NextIdents]_vars

\* [A-Za-z_] and [A-Za-z0-9_] on the characters of IdentChars
IsIdentStart(ch) == ch \in {"a", "z", "Z", "_"}

IsIdentFollow(ch) == ch \in {"a", "z", "Z", "_", "9", "1"}

\* the maximal substrings of input matching [A-Za-z_][A-Za-z0-9_]*, left to
\* right, from position i on
RECURSIVE IdentEnd(_, _)
IdentEnd(input, j) ==
    IF j < Len(input) /\ IsIdentFollow(input[j + 1]) THEN IdentEnd(input, j + 1) ELSE j

RECURSIVE MaximalIdentifiers(_, _)
MaximalIdentifiers(input, i) ==
    IF i > Len(input) THEN << >>
    ELSE IF IsIdentStart(input[i])
         THEN <<SubSeq(input, i, IdentEnd(input, i))>>
                 \o MaximalIdentifiers(input, IdentEnd(input, i) + 1)
         ELSE MaximalIdentifiers(input, i + 1)

IsPrefixOf(s, t) == Len(s) <= Len(t) /\ SubSeq(t, 1, Len(s)) = s

\* C27: repeated next() yields, left to right, exactly the maximal
\* substrings of the input matching [A-Za-z_][A-Za-z0-9_]* (those holding
\* 'z', 'Z' or '9' and the one ending the input included), each once, and
\* then returns None: what was yielded so far is always an initial part of
\* that list, None comes only after the whole list, and within
\* Len(input) + 1 calls.
ExtractIdentsYieldsMaximalIdentifiers ==
    probe.op = "idents" =>
        /\ ~probe.panic
        /\ IsPrefixOf(probe.yielded, MaximalIdentifiers(probe.it.input, 1))
        /\ probe.done => probe.yielded = MaximalIdentifiers(probe.it.input, 1)

\* the first item yielded from an input without 'z', 'Z' and '9' is its
\* first identifier
FirstPlainIdentifierYielded ==
    (/\ probe.op = "idents"
     /\ Len(probe.yielded) >= 1
     /\ \A m \in 1..Len(probe.it.input) : probe.it.input[m] \notin {"z", "Z", "9"})
        => /\ MaximalIdentifiers(probe.it.input, 1) # << >>
           /\ probe.yielded[1] = MaximalIdentifiers(probe.it.input, 1)[1]

\* the specialization calls of the last ingest made while a specialization
\* was being instantiated
NestedCalls == {i \in 1..Len(last.calls) : last.calls[i].depth >= 1}

\* the arguments a rewritten call passes for the captured parameters
PassedCaptured(call) ==
    SubSeq(call.out.args, Len(call.out.args) - Len(call.captured) + 1, Len(call.out.args))

\* C24: for a template call made while a specialization is instantiated,
\* every captured parameter of the enclosing scope appears exactly once, by
\* its gen_id, in the nested scope's capture list, and the nested call
\* passes it under that gen_id.
NestedScopeCapturesEnclosing ==
    \A i \in NestedCalls : \A j \in 1..Len(last.calls[i].enclosing) :
        LET call == last.calls[i]
            gen_id == call.enclosing[j].gen_id
        IN /\ Cardinality({k \in 1..Len(call.captured) :
                               call.captured[k].gen_id = gen_id}) = 1
           /\ Cardinality({k \in 1..Len(call.captured) :
                               PassedCaptured(call)[k] = Var(gen_id)}) = 1

\* a nested call whose own arguments capture no symbol named as an
\* enclosing captured parameter was named where it was first captured
NestedScopeCapturesEnclosingOfOtherName ==
    \A i \in NestedCalls : \A j \in 1..Len(last.calls[i].enclosing) :
        LET call == last.calls[i]
            gen_id == call.enclosing[j].gen_id
        IN (\A k \in 1..Len(call.captured) :
                call.captured[k].ident # call.enclosing[j].ident)
           => /\ Cardinality({k \in 1..Len(call.captured) :
                                  call.captured[k].gen_id = gen_id}) = 1
              /\ Cardinality({k \in 1..Len(call.captured) :
                                  PassedCaptured(call)[k] = Var(gen_id)}) = 1

\* the declarations of def an instantiator registers: its named parameters
\* and its locals, those of a declared pointer type left out
RECURSIVE LocalNames(_, _)
LocalNames(body, i) ==
    IF i > Len(body) THEN << >>
    ELSE (IF body[i].k = "decl" /\ body[i].ty \notin DOMAIN declared_pointer_types
          THEN body[i].names ELSE << >>) \o LocalNames(body, i + 1)

RECURSIVE ParameterNames(_, _)
ParameterNames(params, i) ==
    IF i > Len(params) THEN << >>
    ELSE (IF params[i].name # "" /\ params[i].ty \notin DOMAIN declared_pointer_types
          THEN <<params[i].name>> ELSE << >>) \o ParameterNames(params, i + 1)

RegisteredNames(def) == ParameterNames(def.params, 1) \o LocalNames(def.body, 1)

\* C25: the symbols one instantiator registered under distinct names have
\* pairwise distinct symbol_ids, numbered 0, 1, 2, ... in order of first
\* declaration, also when a name is declared more than once; a declaration
\* of a declared pointer type registers no symbol and consumes no id.
SymbolIdsNumberFirstDeclarations ==
    \A i \in 1..Len(last.instantiators) :
        LET w == last.instantiators[i] IN
        /\ \A k \in 1..Len(w.symbol_table) : w.symbol_table[k].val.symbol_id = k - 1
        /\ \A k \in 1..Len(w.symbol_table) :
              w.symbol_table[k].val.ty \notin DOMAIN declared_pointer_types
        /\ w.current_id - w.first_id = Len(RegisteredNames(w.def))

\* the same, for an instantiator that saw no name twice
SymbolIdsNumberDeclarationsOfDistinctNames ==
    \A i \in 1..Len(last.instantiators) :
        LET w == last.instantiators[i]
            names == RegisteredNames(w.def)
        IN (\A a, b \in 1..Len(names) : names[a] = names[b] => a = b)
           => /\ \A k \in 1..Len(w.symbol_table) : w.symbol_table[k].val.symbol_id = k - 1
              /\ \A k \in 1..Len(w.symbol_table) :
                    w.symbol_table[k].val.ty \notin DOMAIN declared_pointer_types
              /\ w.current_id - w.first_id = Len(names)

\* the counter values an instantiator minted a gen_id from
MintedBy(w) == w.first_id .. (w.current_id - 1)

\* C26: the gen_id counter only increases, a nested instantiator starts from
\* the outer one's counter and what it mints advances the counter the outer
\* one continues from: no two symbols declared in the walk of one ordinary
\* function, nested instantiations included, receive the same gen_id.
GenIdsUniqueInWalk ==
    \A i, j \in 1..Len(last.instantiators) :
        i # j => MintedBy(last.instantiators[i]) \cap MintedBy(last.instantiators[j]) = {}

\* the counter of one instantiator never decreases and a nested
\* instantiator starts at or after the counter its walk began from
GenIdCounterMonotonic ==
    \A i \in 1..Len(last.instantiators) :
        /\ last.instantiators[i].first_id <= last.instantiators[i].current_id
        /\ last.instantiators[i].depth >= 1 =>
              last.instantiators[i].first_id >=
                 last.instantiators[Len(last.instantiators)].first_id

====
